---- MODULE Spec2Model ----
(***************************************************************************)
(* A model of INI-IntelliSense: the semantic-token provider                *)
(* (src/src/semantic-tokens-provider.ts) and the CSF label store           *)
(* (src/src/csf-manager.ts): its binary and text decoders and the manager  *)
(* that indexes the workspace files and follows the file watcher.          *)
(*                                                                         *)
(* The tokenizer's text is a sequence of one-character strings; columns    *)
(* and line numbers are 0-based as in the source, sequences are 1-based    *)
(* as in TLA+.  The label store's strings are sequences of code units.     *)
(***************************************************************************)
EXTENDS Integers, Sequences, FiniteSets, TLC

VARIABLES
    \* ---- tokenizer (IniSemanticTokensProvider) ----
    document,     \* the TextDocument: a sequence of lines
    call,         \* which entry point is running: "idle", "full", "range", "done"
    kind,         \* the entry point of the current or last call: "none", "full", "range"
    rangeStart,   \* range.start.line of the ranged call
    rangeEnd,     \* range.end.line of the ranged call
    lineIdx,      \* the loop variable i of the running entry point
    state,        \* ParseState.inMultilineString threaded through the loop
    builder,      \* the pushes made to the SemanticTokensBuilder, in push order
    cancelled,    \* token.isCancellationRequested
    passed,       \* the ParseState object handed to the latest parseLine call, read
                  \* after the call: <<>> before any call, else <<inMultilineString>>
    fullResults,  \* history: the token lists returned by the full tokenizations
                  \* that ran to the end of the document, oldest first
    \* ---- binary label store (CsfManager.parseCsf) ----
    archive,      \* the abstract records the input buffer was built from
    buffer,       \* the bytes handed to parseCsf
    csfPhase,     \* "ready", "parsed"
    csfOutcome,   \* "none", "returned" (early return), "completed", "threw"
    csfWrites,    \* the entries written by the call, in write order
    mergedLabels, \* CsfManager.mergedLabels
    fileLabels,   \* CsfManager.fileLabels
    \* ---- XOR step (CsfManager.decodeCsfString) ----
    codeUnit,     \* the uint16 read from the buffer
    decodedUnit,  \* the decoded code unit, or -1 before decoding
    \* ---- text label store (CsfManager.parseLlf) ----
    llfContent,   \* the string handed to parseLlf, as UTF-16 code units
    llfPhase,     \* "ready", "parsed"
    llfWrites,    \* the entries written by the call, in write order
    \* ---- the CsfManager and the files it watches ----
    disk,         \* the workspace files: path -> [exists, bytes]
    scans,        \* the running indexWorkspaceFiles calls, oldest first
    reloads,      \* the running watcher-triggered reloadFile calls, oldest first
    initialized,  \* CsfManager._isInitialized
    events,       \* the number of file events delivered so far
    lastLoad,     \* history: the parse that ended last, since the last removeFile
    latest,       \* history: per lower-cased label, the entry of the last load that had
                  \* it, kept until removeFile first runs
    removed,      \* history: whether removeFile has run
    threw,        \* history: whether a parse has thrown
    settled,      \* history: "rebuilding" from a delete event until another file
                  \* event, "rebuilt" when the rebuild of that delete event ends
    iniContent,   \* MultilineIniParser.parse: the content argument
    iniPhase,     \* "off", "ready" before the call, "done" after it
    parsed,       \* MultilineIniParser.parse: the map returned
    descriptions,     \* DescriptionManager.descriptions
    currentLanguage,  \* DescriptionManager.currentLanguage
    descriptionDir,   \* DescriptionManager.descriptionDir
    query,        \* getDescription: sectionName and keyName
    attempt,      \* getDescription: 1 in the first findDescriptionRecursive, 2 in the second
    walkLanguage, \* findDescriptionRecursive: language
    walkSection,  \* findDescriptionRecursive: currentSection
    visited,      \* findDescriptionRecursive: visited, in insertion order
    descPhase,    \* "off", "idle", "walk" in the loop, "miss" after a walk that
                  \* returned undefined, "done" after getDescription returned
    descResult,   \* the value getDescription returned
    descFiles,    \* the file system: per path, whether it exists, can be read, its text
    loadResult,   \* "none", or what loadFromDictionary returned: "true" or "false"
    loadLog,      \* history: the calls of loadFromFile made on the manager
    waiter,       \* a caller of waitForInitialization: "none", "waiting" at its
                  \* await, "resolved" after it
    \* ---- DictionaryService.downloadAndConfigure ----
    repository,   \* the files of the dictionary repository: name -> content
    network,      \* per mirror, the file names whose request fails
    dlPhase,      \* "off", "idle", "queue" in the download queue loop, "descriptions"
                  \* in the description loop, "returned", "threw"
    mirror,       \* the index of baseUrl in DOWNLOAD_BASE_URLS, from 1
    downloadQueue,    \* downloadQueue
    downloadedFiles,  \* downloadedFiles
    descriptionFiles, \* descriptionFiles, as entries in insertion order
    descIndex,    \* the position of the loop over descriptionFiles
    dictDir,      \* the files written below dictDir: path -> content
    lastError,    \* lastError: null, or the mirror and file of the failed request
    schemaFilePath,   \* the global setting schemaFilePath
    requests,     \* history: the requests made, in order
    \* ---- the earlier DescriptionManager ----
    legacyDescriptions, \* descriptions
    legacyLanguage,     \* currentLanguage
    legacyLog,    \* history: the calls of loadFromFile made on it
    legacyQuery,  \* null, or the arguments of its call of getDescription
    legacyResult  \* the value that call returned

tokVars == <<document, call, kind, rangeStart, rangeEnd, lineIdx, state, builder, cancelled,
            passed, fullResults>>
csfVars == <<archive, buffer, csfPhase, csfOutcome, csfWrites, mergedLabels, fileLabels>>
xorVars == <<codeUnit, decodedUnit>>
llfVars == <<llfContent, llfPhase, llfWrites>>
mgrVars == <<disk, scans, reloads, initialized, events, lastLoad, latest, removed, threw, settled>>
iniVars == <<iniContent, iniPhase, parsed>>
storeVars == <<descriptions, currentLanguage, descriptionDir>>
walkVars == <<query, attempt, walkLanguage, walkSection, visited, descPhase, descResult>>
dictVars == <<descFiles, loadResult, loadLog>>
descVars == <<iniVars, storeVars, walkVars, dictVars>>
dlVars == <<repository, network, dlPhase, mirror, downloadQueue, downloadedFiles,
            descriptionFiles, descIndex, dictDir, lastError, schemaFilePath, requests>>
legacyVars == <<legacyDescriptions, legacyLanguage, legacyLog, legacyQuery, legacyResult>>
moreVars == <<waiter, dlVars, legacyVars>>
vars == <<tokVars, csfVars, xorVars, llfVars, mgrVars, descVars, moreVars>>

(***************************************************************************)
(* Bounds                                                                  *)
(***************************************************************************)
MaxDocLines == 3
MaxRecords == 2
MaxPairs == 2
MaxLlfLines == 3
MaxEvents == 2
MaxIniLines == 3
MaxDictLines == 3
MaxLoads == 2
MaxKeyParts == 4
MaxFullCalls == 2
MaxBlockLines == 2

(***************************************************************************)
(* String helpers (JavaScript String methods)                              *)
(***************************************************************************)
SetMin(S) == CHOOSE x \in S : \A y \in S : x <= y
SetMax(S) == CHOOSE x \in S : \A y \in S : x >= y

Q == "\""
Q3 == <<Q, Q, Q>>

\* \s of the regular expressions, on the alphabet the documents use
IsSpace(c) == c \in {" ", "\t"}

\* s.substring(from, to), 0-based, to exclusive, both clamped
Substring(s, from, to) ==
    LET a == IF from < 0 THEN 0 ELSE IF from > Len(s) THEN Len(s) ELSE from
        b == IF to < 0 THEN 0 ELSE IF to > Len(s) THEN Len(s) ELSE to
    IN  IF a <= b THEN SubSeq(s, a + 1, b) ELSE SubSeq(s, b + 1, a)

\* s.indexOf(sub, from): the first 0-based position >= from where sub occurs, or -1
IndexOf(s, sub, from) ==
    LET f == IF from < 0 THEN 0 ELSE from
        hits == {k \in f..(Len(s) - Len(sub)) : SubSeq(s, k + 1, k + Len(sub)) = sub}
    IN  IF sub = <<>> THEN (IF f > Len(s) THEN Len(s) ELSE f)
        ELSE IF hits = {} THEN -1 ELSE SetMin(hits)

\* s.includes(sub)
Includes(s, sub) == IndexOf(s, sub, 0) # -1

\* the number of leading / trailing whitespace characters of s
RECURSIVE LeadingSpaces(_)
LeadingSpaces(s) ==
    IF s = <<>> \/ ~IsSpace(Head(s)) THEN 0 ELSE 1 + LeadingSpaces(Tail(s))

RECURSIVE TrailingSpaces(_)
TrailingSpaces(s) ==
    IF s = <<>> \/ ~IsSpace(s[Len(s)]) THEN 0
    ELSE 1 + TrailingSpaces(SubSeq(s, 1, Len(s) - 1))

\* s.trim()
Trim(s) ==
    IF LeadingSpaces(s) = Len(s) THEN <<>>
    ELSE SubSeq(s, LeadingSpaces(s) + 1, Len(s) - TrailingSpaces(s))

\* s.split('.')
RECURSIVE SplitDot(_)
SplitDot(s) ==
    LET p == IndexOf(s, <<".">>, 0)
    IN  IF p = -1 THEN <<s>>
        ELSE <<Substring(s, 0, p)>> \o SplitDot(Substring(s, p + 1, Len(s)))

\* the length of the longest prefix of s made of characters outside stop
RECURSIVE RunLength(_, _)
RunLength(s, stop) ==
    IF s = <<>> \/ Head(s) \in stop THEN 0 ELSE 1 + RunLength(Tail(s), stop)

\* the start positions of the matches of /"""/g in s, from position from
RECURSIVE TripleQuoteMatches(_, _)
TripleQuoteMatches(s, from) ==
    LET p == IndexOf(s, Q3, from)
    IN  IF p = -1 THEN <<>> ELSE <<p>> \o TripleQuoteMatches(s, p + 3)

\* the matches of /"[^"]*"/g in s, from position from: <<index, length>> each
RECURSIVE StringMatches(_, _)
StringMatches(s, from) ==
    LET p == IndexOf(s, <<Q>>, from)
        q == IndexOf(s, <<Q>>, p + 1)
    IN  IF p = -1 \/ q = -1 THEN <<>>
        ELSE <<(<<p, q - p + 1>>)>> \o StringMatches(s, q + 1)

\* the positions of the matches of /,/g in s, from position from
RECURSIVE CommaMatches(_, _)
CommaMatches(s, from) ==
    LET p == IndexOf(s, <<",">>, from)
    IN  IF p = -1 THEN <<>> ELSE <<p>> \o CommaMatches(s, p + 1)

(***************************************************************************)
(* IniSemanticTokensProvider                                               *)
(***************************************************************************)
\* pushToken: one builder.push(line, start, length, tokenTypeIndex, 0)
Token(line, start, length, type) ==
    [line |-> line, start |-> start, length |-> length, type |-> type]

NoMatch == [ok |-> FALSE]

\* an inheritance pattern that matches no line
InheritMatchNever(s) == NoMatch

\* /^\s*(\[)([^\]:]+)(\]:\[)([^\]]+)(\])/ : the lengths of groups 2 and 4
InheritMatch(s) ==
    LET ws == LeadingSpaces(s)
        g2 == RunLength(Substring(s, ws + 1, Len(s)), {"]", ":"})
        p3 == ws + 1 + g2
        g4 == RunLength(Substring(s, p3 + 3, Len(s)), {"]"})
        p5 == p3 + 3 + g4
    IN  IF /\ Substring(s, ws, ws + 1) = <<"[">>
           /\ g2 >= 1
           /\ Substring(s, p3, p3 + 3) = <<"]", ":", "[">>
           /\ g4 >= 1
           /\ Substring(s, p5, p5 + 1) = <<"]">>
        THEN [ok |-> TRUE, name |-> g2, base |-> g4]
        ELSE NoMatch

\* /^\s*(\[)([^\]:]+)(\])/ : the length of group 2
SimpleMatch(s) ==
    LET ws == LeadingSpaces(s)
        g2 == RunLength(Substring(s, ws + 1, Len(s)), {"]", ":"})
        p3 == ws + 1 + g2
    IN  IF /\ Substring(s, ws, ws + 1) = <<"[">>
           /\ g2 >= 1
           /\ Substring(s, p3, p3 + 1) = <<"]">>
        THEN [ok |-> TRUE, name |-> g2]
        ELSE NoMatch

\* /^(\s*[^\s=]+(?:\.[^\s=]+)*)\s*(=)\s*(.*)/ : groups 1 and 3
KvMatch(s) ==
    LET ws == LeadingSpaces(s)
        run == RunLength(Substring(s, ws, Len(s)), {" ", "\t", "="})
        keyEnd == ws + run
        eq == keyEnd + LeadingSpaces(Substring(s, keyEnd, Len(s)))
        val == eq + 1 + LeadingSpaces(Substring(s, eq + 1, Len(s)))
    IN  IF run >= 1 /\ Substring(s, eq, eq + 1) = <<"=">>
        THEN [ok |-> TRUE, keyFull |-> Substring(s, 0, keyEnd),
              valuePart |-> Substring(s, val, Len(s))]
        ELSE NoMatch

\* /^[^=]*=\s*(.*)/ : group 1
StateKvMatch(s) ==
    LET eq == IndexOf(s, <<"=">>, 0)
        val == eq + 1 + LeadingSpaces(Substring(s, eq + 1, Len(s)))
    IN  IF eq # -1
        THEN [ok |-> TRUE, valuePart |-> Substring(s, val, Len(s))]
        ELSE NoMatch

\* keyParts.forEach: one token per part, keyOffset advanced by part.length + 1
RECURSIVE KeyTokens(_, _, _, _)
KeyTokens(parts, index, keyOffset, lineNumber) ==
    IF index > Len(parts) THEN <<>>
    ELSE LET styleKey == IF index = 1 THEN "keyPart1"
                         ELSE IF index = 2 THEN "keyPart2" ELSE "keyPart3"
         IN  <<Token(lineNumber, keyOffset, Len(parts[index]), styleKey)>>
             \o KeyTokens(parts, index + 1, keyOffset + Len(parts[index]) + 1, lineNumber)

\* the while loop over tripleQuoteRegex.exec(valuePart): the pushes it makes,
\* and inString / startIndex when it ends
RECURSIVE TripleQuoteScan(_, _, _, _, _, _, _)
TripleQuoteScan(matches, k, inString, startIndex, lineNumber, valueOffset, pushed) ==
    IF k > Len(matches)
    THEN [tokens |-> pushed, inString |-> inString, startIndex |-> startIndex]
    ELSE LET m == matches[k]
             quote == Token(lineNumber, valueOffset + m, 3, "valueMultilineString")
         IN  IF ~inString
             THEN TripleQuoteScan(matches, k + 1, TRUE, m, lineNumber, valueOffset,
                                  Append(pushed, quote))
             ELSE TripleQuoteScan(matches, k + 1, FALSE, startIndex, lineNumber, valueOffset,
                      Append(pushed, quote) \o
                      (IF m > startIndex + 3
                       THEN <<Token(lineNumber, valueOffset + startIndex + 3,
                                    m - startIndex - 3, "valueMultilineString")>>
                       ELSE <<>>))

\* the two while loops over stringRegex and commaRegex
StringAndCommaTokens(valuePart, lineNumber, valueOffset) ==
    LET strs == StringMatches(valuePart, 0)
        commas == CommaMatches(valuePart, 0)
    IN  [k \in 1..Len(strs) |->
            Token(lineNumber, valueOffset + strs[k][1], strs[k][2], "valueString")]
        \o
        [k \in 1..Len(commas) |->
            Token(lineNumber, valueOffset + commas[k], 1, "valueComma")]

\* a multi-line branch that colours the whole line when it finds the marker
MultilineBranchWholeLine(lineWithoutComment, lineNumber) ==
    LET endIndex == IndexOf(lineWithoutComment, Q3, 0)
    IN  [tokens |-> <<Token(lineNumber, 0, Len(lineWithoutComment),
                            "valueMultilineString")>>,
         inMultilineString |-> endIndex = -1]

\* the branch of parseLine taken while inside a multi-line string
MultilineBranch(lineWithoutComment, lineNumber) ==
    LET endIndex == IndexOf(lineWithoutComment, Q3, 0)
    IN  IF endIndex # -1
        THEN [tokens |->
                (IF endIndex > 0
                 THEN <<Token(lineNumber, 0, endIndex, "valueMultilineString")>>
                 ELSE <<>>)
                \o <<Token(lineNumber, endIndex, 3, "valueMultilineString")>>,
              inMultilineString |-> FALSE]
        ELSE [tokens |-> <<Token(lineNumber, 0, Len(lineWithoutComment),
                                 "valueMultilineString")>>,
              inMultilineString |-> TRUE]

\* the value part of the key/value branch of parseLine
ValueBranch(lineWithoutComment, lineNumber, valuePart, opOffset) ==
    LET valueOffset == IndexOf(lineWithoutComment, valuePart, opOffset)
        scan == TripleQuoteScan(TripleQuoteMatches(valuePart, 0), 1, FALSE, -1,
                                lineNumber, valueOffset, <<>>)
    IN  IF Len(Trim(valuePart)) = 0
        THEN [tokens |-> <<>>, inMultilineString |-> FALSE]
        ELSE IF Includes(valuePart, Q3)
        THEN [tokens |->
                <<Token(lineNumber, valueOffset, Len(valuePart), "value")>>
                \o scan.tokens
                \o (IF scan.inString
                    THEN IF Len(valuePart) > scan.startIndex + 3
                         THEN <<Token(lineNumber, valueOffset + scan.startIndex + 3,
                                      Len(valuePart) - scan.startIndex - 3,
                                      "valueMultilineString")>>
                         ELSE <<>>
                    ELSE StringAndCommaTokens(valuePart, lineNumber, valueOffset)),
              inMultilineString |-> scan.inString]
        ELSE [tokens |->
                <<Token(lineNumber, valueOffset, Len(valuePart), "value")>>
                \o StringAndCommaTokens(valuePart, lineNumber, valueOffset),
              inMultilineString |-> FALSE]

\* the key/value branch of parseLine
KeyValueBranch(lineWithoutComment, lineNumber, kv) ==
    LET keyParts == SplitDot(Trim(kv.keyFull))
        keyOffset == IndexOf(lineWithoutComment, keyParts[1], 0)
        opOffset == IndexOf(lineWithoutComment, <<"=">>, Len(kv.keyFull))
        value == ValueBranch(lineWithoutComment, lineNumber, kv.valuePart, opOffset)
    IN  [tokens |->
            KeyTokens(keyParts, 1, keyOffset, lineNumber)
            \o <<Token(lineNumber, opOffset, 1, "operator")>>
            \o value.tokens,
         inMultilineString |-> value.inMultilineString]

\* the comment token parseLine pushes first, outside a multi-line string
CommentTokens(lineText, lineNumber, inMultilineString) ==
    LET commentIndex == IF ~inMultilineString THEN IndexOf(lineText, <<";">>, 0) ELSE -1
    IN  IF commentIndex # -1
        THEN <<Token(lineNumber, commentIndex, Len(lineText) - commentIndex, "comment")>>
        ELSE <<>>

\* parseLine(line, builder, state): the pushes it makes and the state it returns
ParseLine(lineText, lineNumber, inMultilineString) ==
    LET commentIndex == IF ~inMultilineString THEN IndexOf(lineText, <<";">>, 0) ELSE -1
        lineWithoutComment ==
            IF commentIndex # -1 THEN Substring(lineText, 0, commentIndex) ELSE lineText
        comment == CommentTokens(lineText, lineNumber, inMultilineString)
        inherit == InheritMatch(lineWithoutComment)
        simple == SimpleMatch(lineWithoutComment)
        kv == KvMatch(lineWithoutComment)
        offset == IndexOf(lineWithoutComment, <<"[">>, 0)
    IN  IF inMultilineString
        THEN LET r == MultilineBranch(lineWithoutComment, lineNumber)
             IN  [tokens |-> comment \o r.tokens, inMultilineString |-> r.inMultilineString]
        ELSE IF inherit.ok
        THEN [tokens |-> comment \o
                <<Token(lineNumber, offset, 1, "sectionBracket"),
                  Token(lineNumber, offset + 1, inherit.name, "sectionContent"),
                  Token(lineNumber, offset + 1 + inherit.name, 3, "sectionInherit"),
                  Token(lineNumber, offset + 4 + inherit.name, inherit.base, "sectionInherit"),
                  Token(lineNumber, offset + 4 + inherit.name + inherit.base, 1,
                        "sectionBracket")>>,
              inMultilineString |-> inMultilineString]
        ELSE IF simple.ok
        THEN [tokens |-> comment \o
                <<Token(lineNumber, offset, 1, "sectionBracket"),
                  Token(lineNumber, offset + 1, simple.name, "sectionContent"),
                  Token(lineNumber, offset + 1 + simple.name, 1, "sectionBracket")>>,
              inMultilineString |-> inMultilineString]
        ELSE IF kv.ok
        THEN LET r == KeyValueBranch(lineWithoutComment, lineNumber, kv)
             IN  [tokens |-> comment \o r.tokens,
                  inMultilineString |-> r.inMultilineString]
        ELSE [tokens |-> comment, inMultilineString |-> inMultilineString]

\* the two ParseState objects when parseLine returns: newState = { ...state } is
\* a copy, so the writes to newState.inMultilineString leave the argument alone
ParseStates(given, result) == [argument |-> given, returned |-> result]

\* one iteration of the loop of getParseStateAtLine
ReplayLine(lineText, inMultilineString) ==
    LET commentIndex == IndexOf(lineText, <<";">>, 0)
        lineWithoutComment ==
            IF commentIndex # -1 THEN Substring(lineText, 0, commentIndex) ELSE lineText
        kvMatch == StateKvMatch(lineWithoutComment)
    IN  IF inMultilineString
        THEN ~Includes(lineWithoutComment, Q3)
        ELSE /\ kvMatch.ok
             /\ Includes(kvMatch.valuePart, Q3)
             /\ Len(TripleQuoteMatches(kvMatch.valuePart, 0)) % 2 = 1

\* getParseStateAtLine(document, lineNumber)
RECURSIVE GetParseStateAtLine(_, _)
GetParseStateAtLine(doc, lineNumber) ==
    IF lineNumber <= 0 THEN FALSE
    ELSE ReplayLine(doc[lineNumber], GetParseStateAtLine(doc, lineNumber - 1))

\* provideDocumentSemanticTokens run to the end of its loop without cancellation,
\* over the first n lines: the pushes made and the state reached
RECURSIVE TokenizeFull(_, _)
TokenizeFull(doc, n) ==
    IF n = 0 THEN [tokens |-> <<>>, inMultilineString |-> FALSE]
    ELSE LET before == TokenizeFull(doc, n - 1)
             r == ParseLine(doc[n], n - 1, before.inMultilineString)
         IN  [tokens |-> before.tokens \o r.tokens,
              inMultilineString |-> r.inMultilineString]


\* provideDocumentRangeSemanticTokens over [a, n) run without cancellation: the
\* pushes made and the state reached
RECURSIVE TokenizeRange(_, _, _)
TokenizeRange(doc, a, n) ==
    IF n <= a THEN [tokens |-> <<>>, inMultilineString |-> GetParseStateAtLine(doc, a)]
    ELSE LET before == TokenizeRange(doc, a, n - 1)
             r == ParseLine(doc[n], n - 1, before.inMultilineString)
         IN  [tokens |-> before.tokens \o r.tokens,
              inMultilineString |-> r.inMultilineString]

(***************************************************************************)
(* The tokenizer as a state machine.  The two entry points contain no      *)
(* await; their loops are modelled one iteration per step so that the      *)
(* cancellation flag, which the editor owns, can be read at each check.    *)
(***************************************************************************)
\* the lines documents are made of
DocLines ==
    { <<"a", "=", Q, Q, Q>>,                          \* a="""
      <<"b", ";", Q, Q, Q>>,                          \* b;"""
      <<"a", "=", "b", ";", "c">>,                    \* a=b;c
      <<"[", "a", "]", "=", Q, Q, Q>>,                \* [a]="""
      <<Q, Q, Q, "a", Q, Q, Q>>,                      \* """a"""
      <<"[", "a", "]", ":", "[", "b", "]">>,          \* [a]:[b]
      <<"a", " ", "b", "=", Q, Q, Q>>,                \* a b="""
      <<"K", "e", "y", ".", "S", "u", "b", "=", "1", ",", Q, "a", ",", "b", Q, ",", "2">> }
                                                      \* Key.Sub=1,"a,b",2

Documents == UNION {[1..n -> DocLines] : n \in 1..MaxDocLines}

\* single lines for the per-line contracts: keys of up to MaxKeyParts parts,
\* values that start with the operator character, section headers
RECURSIVE JoinWith(_, _)
JoinWith(parts, sep) ==
    IF parts = <<>> THEN <<>>
    ELSE IF Len(parts) = 1 THEN parts[1]
    ELSE parts[1] \o sep \o JoinWith(Tail(parts), sep)

Indents == {<<>>, <<" ">>}
KeyPartTexts == {<<>>, <<"a">>, <<"b", "c">>}
KeyTexts ==
    {JoinWith(ps, <<".">>) : ps \in UNION {[1..n -> KeyPartTexts] : n \in 1..MaxKeyParts}}
KeyLines ==
    {i \o k \o e : i \in Indents, k \in KeyTexts, e \in {<<"=", "1">>, <<" ", "=", " ", "1">>}}

ValueTexts ==
    {<<>>, <<" ">>, <<"1">>, <<"=">>, <<"=", "=">>, <<"=", "b">>, <<"b", " ", "c">>,
     <<"b", "=", "b">>}
ValueLines ==
    {i \o k \o e \o v \o c :
        i \in Indents, k \in {<<"a">>, <<"a", ".", "b">>},
        e \in {<<"=">>, <<" ", "=", " ">>, <<"=", "\t">>},
        v \in ValueTexts, c \in {<<>>, <<";", "c">>}}

NameTexts == {<<"a">>, <<"A", " ", "b">>, <<"[", "a">>, <<"a", "=">>}
BaseTexts == {<<"b">>, <<"b", ":", "c">>, <<"[", "b">>}
SectionLines ==
    {i \o <<"[">> \o n \o r \o c :
        i \in Indents \cup {<<"\t", " ">>}, n \in NameTexts,
        r \in {<<"]">>, <<"]", ":">>, <<"]", " ">>}
              \cup {<<"]", ":", "[">> \o b \o <<"]">> : b \in BaseTexts}
              \cup {<<"]", ":", "[">> \o b : b \in BaseTexts},
        c \in {<<>>, <<" ">>, <<";", "c">>, <<" ", ";", "]">>}}

LineTexts == KeyLines \cup ValueLines \cup SectionLines

TokIdle ==
    /\ document = <<>>
    /\ call = "off"
    /\ kind = "none"
    /\ rangeStart = 0
    /\ rangeEnd = 0
    /\ lineIdx = 0
    /\ state = FALSE
    /\ builder = <<>>
    /\ cancelled = FALSE
    /\ passed = <<>>
    /\ fullResults = <<>>

TokInit ==
    /\ document \in Documents
    /\ call = "idle"
    /\ kind = "none"
    /\ rangeStart = 0
    /\ rangeEnd = 0
    /\ lineIdx = 0
    /\ state = FALSE
    /\ builder = <<>>
    /\ cancelled = FALSE
    /\ passed = <<>>
    /\ fullResults = <<>>

\* document.lineCount
LineCount == Len(document)

\* the last line the running loop processes
LastLine == IF kind = "full" THEN LineCount - 1 ELSE rangeEnd

\* a full tokenization that goes on from the parse state the previous call left
ProvideDocumentSemanticTokensResumed ==
    /\ call = "idle"
    /\ call' = "full"
    /\ kind' = "full"
    /\ lineIdx' = 0
    /\ builder' = <<>>
    /\ UNCHANGED <<document, rangeStart, rangeEnd, state, cancelled, passed, fullResults>>
    /\ UNCHANGED <<csfVars, xorVars, llfVars, mgrVars, descVars, moreVars>>

\* provideDocumentSemanticTokens, up to its loop
ProvideDocumentSemanticTokens ==
    /\ call = "idle"
    /\ call' = "full"
    /\ kind' = "full"
    /\ lineIdx' = 0
    /\ state' = FALSE
    /\ builder' = <<>>
    /\ UNCHANGED <<document, rangeStart, rangeEnd, cancelled, passed, fullResults>>
    /\ UNCHANGED <<csfVars, xorVars, llfVars, mgrVars, descVars, moreVars>>

\* provideDocumentRangeSemanticTokens, up to its loop
ProvideDocumentRangeSemanticTokens ==
    /\ call = "idle"
    /\ \E a \in 0..(LineCount - 1) : \E b \in a..(LineCount - 1) :
          /\ rangeStart' = a
          /\ rangeEnd' = b
          /\ state' = GetParseStateAtLine(document, a)
          /\ lineIdx' = a
    /\ call' = "range"
    /\ kind' = "range"
    /\ builder' = <<>>
    /\ UNCHANGED <<document, cancelled, passed, fullResults>>
    /\ UNCHANGED <<csfVars, xorVars, llfVars, mgrVars, descVars, moreVars>>

\* one iteration of either loop: the cancellation check passes, parseLine runs
LoopParseLine ==
    /\ call \in {"full", "range"}
    /\ lineIdx <= LastLine
    /\ ~cancelled
    /\ \E r \in {ParseLine(document[lineIdx + 1], lineIdx, state)} :
           /\ builder' = builder \o r.tokens
           /\ state' = ParseStates(state, r.inMultilineString).returned
           /\ passed' = <<ParseStates(state, r.inMultilineString).argument>>
    /\ lineIdx' = lineIdx + 1
    /\ UNCHANGED <<document, call, kind, rangeStart, rangeEnd, cancelled, fullResults>>
    /\ UNCHANGED <<csfVars, xorVars, llfVars, mgrVars, descVars, moreVars>>

\* a break that drops the tokens built so far
LoopBreakDiscard ==
    /\ call \in {"full", "range"}
    /\ lineIdx <= LastLine
    /\ cancelled
    /\ call' = "done"
    /\ builder' = <<>>
    /\ UNCHANGED <<document, kind, rangeStart, rangeEnd, lineIdx, state, cancelled>>
    /\ UNCHANGED <<passed, fullResults>>
    /\ UNCHANGED <<csfVars, xorVars, llfVars, mgrVars, descVars, moreVars>>

\* the cancellation check fails: break, then return builder.build()
LoopBreak ==
    /\ call \in {"full", "range"}
    /\ lineIdx <= LastLine
    /\ cancelled
    /\ call' = "done"
    /\ UNCHANGED <<document, kind, rangeStart, rangeEnd, lineIdx, state, builder, cancelled>>
    /\ UNCHANGED <<passed, fullResults>>
    /\ UNCHANGED <<csfVars, xorVars, llfVars, mgrVars, descVars, moreVars>>

\* the loop condition fails: return builder.build()
LoopExit ==
    /\ call \in {"full", "range"}
    /\ lineIdx > LastLine
    /\ call' = "done"
    /\ fullResults' = IF kind = "full" THEN Append(fullResults, builder) ELSE fullResults
    /\ UNCHANGED <<document, kind, rangeStart, rangeEnd, lineIdx, state, builder, cancelled>>
    /\ UNCHANGED passed
    /\ UNCHANGED <<csfVars, xorVars, llfVars, mgrVars, descVars, moreVars>>

\* the editor cancels the request
Cancel ==
    /\ call \in {"idle", "full", "range"}
    /\ ~cancelled
    /\ cancelled' = TRUE
    /\ UNCHANGED <<document, call, kind, rangeStart, rangeEnd, lineIdx, state, builder>>
    /\ UNCHANGED <<passed, fullResults>>
    /\ UNCHANGED <<csfVars, xorVars, llfVars, mgrVars, descVars, moreVars>>

\* the editor has the tokens of the finished call and makes another request
\* for the same document, with a new cancellation token.  The locals of the
\* finished call are dead; the model keeps the last ParseState so that the
\* next call shows where it starts from.
NextRequest ==
    /\ call = "done"
    /\ Len(fullResults) < MaxFullCalls
    /\ call' = "idle"
    /\ cancelled' = FALSE
    /\ lineIdx' = 0
    /\ rangeStart' = 0
    /\ rangeEnd' = 0
    /\ builder' = <<>>
    /\ UNCHANGED <<document, kind, state, passed, fullResults>>
    /\ UNCHANGED <<csfVars, xorVars, llfVars, mgrVars, descVars, moreVars>>

(***************************************************************************)
(* CsfManager: the binary archive decoder                                  *)
(*                                                                         *)
(* A buffer is a sequence of bytes 0..255.  A label is a sequence of       *)
(* character codes, a value a sequence of UTF-16 code units, an            *)
(* extraValue <<>> when undefined and <<text>> otherwise.                  *)
(***************************************************************************)
XorMask == 65535

\* a ^ b on non-negative integers
RECURSIVE BitXor(_, _)
BitXor(a, b) ==
    IF a = 0 /\ b = 0 THEN 0
    ELSE (((a % 2) + (b % 2)) % 2) + 2 * BitXor(a \div 2, b \div 2)

\* ~charCode: the bitwise NOT of a 32-bit signed integer
DecodeCharNot(charCode) == -(charCode + 1)

\* const decodedChar = charCode ^ 0xFFFF
DecodeChar(charCode) == BitXor(charCode, XorMask)

\* buffer.readInt32BE(offset)
ReadInt32BE(buf, offset) ==
    LET high == IF buf[offset + 1] >= 128 THEN buf[offset + 1] - 256 ELSE buf[offset + 1]
    IN  buf[offset + 4] + 256 * buf[offset + 3] + 65536 * buf[offset + 2] + 16777216 * high

\* buffer.readInt32LE(offset), for an offset that is in range: the top byte
\* carries the sign
ReadInt32LE(buf, offset) ==
    LET high == IF buf[offset + 4] >= 128 THEN buf[offset + 4] - 256 ELSE buf[offset + 4]
    IN  buf[offset + 1] + 256 * buf[offset + 2] + 65536 * buf[offset + 3] + 16777216 * high

\* buffer.readUInt16LE(offset), for an offset that is in range
ReadUInt16LE(buf, offset) == buf[offset + 1] + 256 * buf[offset + 2]

\* whether a read of n bytes at offset is in range; the Buffer read methods
\* throw a RangeError when it is not
InRange(buf, offset, n) == offset >= 0 /\ offset + n <= Len(buf)

\* buffer.toString('ascii', start, end): both ends clamped, the high bit of
\* each byte cleared; never throws
ToStringAscii(buf, start, end) ==
    LET a == IF start <= 0 THEN 0 ELSE start
        b == IF end > Len(buf) THEN Len(buf) ELSE end
    IN  IF a >= Len(buf) \/ b <= a THEN <<>>
        ELSE [k \in 1..(b - a) |-> (buf[a + k] % 128)]

\* String.prototype.toLowerCase on character codes
ToLowerCase(str) ==
    [k \in 1..Len(str) |-> IF str[k] >= 65 /\ str[k] <= 90 THEN str[k] + 32 ELSE str[k]]

\* the record tags
TagFSC == <<32, 70, 83, 67>>      \* " FSC"
TagLBL == <<32, 76, 66, 76>>      \* " LBL"
TagRTS == <<32, 82, 84, 83>>      \* " RTS"
TagWRTS == <<87, 82, 84, 83>>     \* "WRTS"

\* decodeCsfString(buffer, start, len); the caller has checked that every
\* readUInt16LE of the loop is in range
DecodeCsfString(buf, start, len) ==
    IF len <= 0 THEN <<>>
    ELSE [i \in 1..len |-> DecodeChar(ReadUInt16LE(buf, start + (i - 1) * 2))]

\* whether a readUInt16LE of decodeCsfString's loop throws
DecodeThrows(buf, start, len) == len > 0 /\ ~InRange(buf, start, 2 * len)

\* Map.prototype.set
MapSet(m, key, value) ==
    [x \in (DOMAIN m) \cup {key} |-> IF x = key THEN value ELSE m[x]]

EmptyMap == [x \in {} |-> x]

\* the map that keeps, for a label already set, the entry set first
RECURSIVE SetAllKeepFirst(_, _)
SetAllKeepFirst(m, writes) ==
    IF writes = <<>> THEN m
    ELSE SetAllKeepFirst(IF ToLowerCase(Head(writes).label) \in DOMAIN m THEN m
                         ELSE MapSet(m, ToLowerCase(Head(writes).label), Head(writes)),
                         Tail(writes))

\* the map obtained by setting every entry of writes, in order, under its
\* lower-cased label
RECURSIVE SetAll(_, _)
SetAll(m, writes) ==
    IF writes = <<>> THEN m
    ELSE SetAll(MapSet(m, ToLowerCase(Head(writes).label), Head(writes)), Tail(writes))

\* the loop over the pairs of one label: the offset and the entries written
\* when it ends, and whether a read threw
RECURSIVE PairLoop(_, _, _, _, _, _)
PairLoop(buf, offset, j, numPairs, labelName, writes) ==
    IF j >= numPairs \/ offset + 4 > Len(buf)
    THEN [offset |-> offset, writes |-> writes, threw |-> FALSE]
    ELSE LET valueId == ToStringAscii(buf, offset, offset + 4)
             o1 == offset + 4
             valueLen == ReadInt32LE(buf, o1)
             o2 == o1 + 4
             o3 == o2 + valueLen * 2
             extraLen == ReadInt32LE(buf, o3)
             o4 == o3 + 4
             entry == [label |-> labelName,
                       value |-> DecodeCsfString(buf, o2, valueLen),
                       extraValue |-> IF valueId = TagWRTS
                                      THEN <<ToStringAscii(buf, o4, o4 + extraLen)>>
                                      ELSE <<>>]
         IN  IF valueId # TagRTS /\ valueId # TagWRTS
             THEN [offset |-> o1, writes |-> writes, threw |-> FALSE]
             ELSE IF ~InRange(buf, o1, 4) \/ DecodeThrows(buf, o2, valueLen)
             THEN [offset |-> o1, writes |-> writes, threw |-> TRUE]
             ELSE IF valueId = TagWRTS /\ ~InRange(buf, o3, 4)
             THEN [offset |-> o3, writes |-> writes, threw |-> TRUE]
             ELSE PairLoop(buf,
                           IF valueId = TagWRTS THEN o4 + extraLen ELSE o3,
                           j + 1, numPairs, labelName, Append(writes, entry))

\* the loop over the labels: the entries written, and whether a read threw
RECURSIVE LabelLoop(_, _, _, _, _)
LabelLoop(buf, offset, i, numLabels, writes) ==
    IF i >= numLabels \/ offset + 4 > Len(buf)
    THEN [writes |-> writes, threw |-> FALSE]
    ELSE LET labelId == ToStringAscii(buf, offset, offset + 4)
             o1 == offset + 4
             numPairs == ReadInt32LE(buf, o1)
             labelLen == ReadInt32LE(buf, o1 + 4)
             o2 == o1 + 8
             labelName == ToStringAscii(buf, o2, o2 + labelLen)
             pairs == PairLoop(buf, o2 + labelLen, 0, numPairs, labelName, writes)
         IN  IF labelId # TagLBL
             THEN [writes |-> writes, threw |-> FALSE]
             ELSE IF ~InRange(buf, o1, 8)
             THEN [writes |-> writes, threw |-> TRUE]
             ELSE IF pairs.threw
             THEN [writes |-> pairs.writes, threw |-> TRUE]
             ELSE LabelLoop(buf, pairs.offset, i + 1, numLabels, pairs.writes)

HeaderLength == 24

\* parseCsf(buffer, filePath): how it ends ("returned" before the header is
\* accepted, "threw", or "completed" with fileLabels.set) and the entries it
\* wrote into mergedLabels, in order
ParseCsf(buf) ==
    IF 4 > Len(buf) \/ ToStringAscii(buf, 0, 4) # TagFSC
    THEN [outcome |-> "returned", writes |-> <<>>]
    ELSE IF ~InRange(buf, 4, HeaderLength - 4)
    THEN [outcome |-> "threw", writes |-> <<>>]
    ELSE LET numLabels == ReadInt32LE(buf, 8)
             r == LabelLoop(buf, HeaderLength, 0, numLabels, <<>>)
         IN  [outcome |-> IF r.threw THEN "threw" ELSE "completed",
              writes |-> r.writes]


(***************************************************************************)
(* Input buffers: archives written in the binary format of the decoder,    *)
(* little-endian, and their damaged forms                                  *)
(***************************************************************************)
Int32Bytes(n) ==
    <<n % 256, (n \div 256) % 256, (n \div 65536) % 256, (n \div 16777216) % 256>>

\* one UTF-16 code unit as stored: its 16-bit complement, low byte first
UnitBytes(u) == <<(65535 - u) % 256, (65535 - u) \div 256>>

RECURSIVE Concat(_)
Concat(seqs) == IF seqs = <<>> THEN <<>> ELSE Head(seqs) \o Concat(Tail(seqs))

TagXXXX == <<88, 88, 88, 88>>     \* "XXXX", no tag of the format

\* a pair: "RTS" and "WRTS" as the format has them; "BADTAG" is an RTS pair
\* whose tag is overwritten; "BARE" is an unknown 4-byte tag with no body
EncodePair(p) ==
    (IF p.tag = "RTS" THEN TagRTS ELSE IF p.tag = "WRTS" THEN TagWRTS ELSE TagXXXX)
    \o (IF p.tag = "BARE" THEN <<>>
        ELSE Int32Bytes(Len(p.value))
             \o Concat([k \in 1..Len(p.value) |-> UnitBytes(p.value[k])]))
    \o (IF p.tag = "WRTS" THEN Int32Bytes(Len(p.extra)) \o p.extra ELSE <<>>)

EncodeRecord(r) ==
    (IF r.tag = "LBL" THEN TagLBL ELSE TagXXXX)
    \o Int32Bytes(Len(r.pairs))
    \o Int32Bytes(Len(r.name))
    \o r.name
    \o Concat([k \in 1..Len(r.pairs) |-> EncodePair(r.pairs[k])])

RECURSIVE SumOf(_)
SumOf(ns) == IF ns = <<>> THEN 0 ELSE Head(ns) + SumOf(Tail(ns))

\* " FSC", version 1, labelCount, stringCount, reserved 0, language 0, records
EncodeArchive(a) ==
    TagFSC
    \o Int32Bytes(1)
    \o Int32Bytes(Len(a))
    \o Int32Bytes(SumOf([k \in 1..Len(a) |-> Len(a[k].pairs)]))
    \o Int32Bytes(0)
    \o Int32Bytes(0)
    \o Concat([k \in 1..Len(a) |-> EncodeRecord(a[k])])

SeqsUpTo(S, n) == UNION {[1..k -> S] : k \in 0..n}

NameFOO == <<70, 79, 79>>          \* "FOO"
NameFoo == <<70, 111, 111>>        \* "Foo"
NameB == <<66>>                    \* "B"

PairA == [tag |-> "RTS", value |-> <<65>>, extra |-> <<>>]              \* "A"
PairW == [tag |-> "WRTS", value |-> <<66, 20013>>, extra |-> <<120>>]   \* "B中", "x"
PairBadTag == [tag |-> "BADTAG", value |-> <<65>>, extra |-> <<>>]
PairBare == [tag |-> "BARE", value |-> <<>>, extra |-> <<>>]

WellFormedArchives ==
    SeqsUpTo([tag : {"LBL"}, name : {NameFOO, NameFoo, NameB},
              pairs : SeqsUpTo({PairA, PairW}, MaxPairs)], MaxRecords)

DamagedArchives ==
    SeqsUpTo([tag : {"LBL"}, name : {NameFOO},
              pairs : SeqsUpTo({PairA, PairW, PairBadTag, PairBare}, MaxPairs)]
             \cup {[tag |-> "BAD", name |-> NameB, pairs |-> <<PairA>>]},
             MaxRecords)

\* the path of the file being decoded
FilePath == "a.csf"

CsfInitState ==
    /\ csfPhase = "ready"
    /\ csfOutcome = "none"
    /\ csfWrites = <<>>
    /\ mergedLabels = EmptyMap
    /\ fileLabels = EmptyMap

\* parseCsf(buffer, filePath) on the CsfManager
ParseCsfCall ==
    /\ csfPhase = "ready"
    /\ \E r \in {ParseCsf(buffer)} :
           /\ csfOutcome' = r.outcome
           /\ csfWrites' = r.writes
           /\ mergedLabels' = SetAll(mergedLabels, r.writes)
           /\ fileLabels' = IF r.outcome = "completed"
                            THEN MapSet(fileLabels, FilePath, SetAll(EmptyMap, r.writes))
                            ELSE fileLabels
    /\ csfPhase' = "parsed"
    /\ UNCHANGED <<archive, buffer>>
    /\ UNCHANGED <<tokVars, xorVars, llfVars, mgrVars, descVars, moreVars>>

\* the XOR step of decodeCsfString on one code unit
DecodeUnit ==
    /\ decodedUnit = -1
    /\ decodedUnit' = DecodeChar(codeUnit)
    /\ UNCHANGED codeUnit
    /\ UNCHANGED <<tokVars, csfVars, llfVars, mgrVars, descVars, moreVars>>


(***************************************************************************)
(* The text decoder: CsfManager.parseLlf.  A string is a sequence of       *)
(* UTF-16 code units, as the labels and values of the binary decoder are.  *)
(***************************************************************************)
StrNewline == <<10>>               \* '\n'
StrTwoSpaces == <<32, 32>>         \* '  '
StrHash == <<35>>                  \* '#'
StrSeparator == <<58, 32>>         \* ': '
StrGreater == <<62>>               \* '>'

\* the white space and line terminators String.prototype.trim removes
IsWhiteSpace(c) == c \in {9, 10, 11, 12, 13, 32, 160, 8232, 8233, 65279}

RECURSIVE LeadingWhite(_)
LeadingWhite(s) ==
    IF s = <<>> \/ ~IsWhiteSpace(Head(s)) THEN 0 ELSE 1 + LeadingWhite(Tail(s))

RECURSIVE TrailingWhite(_)
TrailingWhite(s) ==
    IF s = <<>> \/ ~IsWhiteSpace(s[Len(s)]) THEN 0
    ELSE 1 + TrailingWhite(SubSeq(s, 1, Len(s) - 1))

\* s.trim() on code units
TrimCodes(s) ==
    IF LeadingWhite(s) = Len(s) THEN <<>>
    ELSE SubSeq(s, LeadingWhite(s) + 1, Len(s) - TrailingWhite(s))

\* s.startsWith(prefix)
StartsWith(s, prefix) == Len(s) >= Len(prefix) /\ SubSeq(s, 1, Len(prefix)) = prefix

\* content.split('\n')
RECURSIVE SplitLines(_)
SplitLines(s) ==
    LET p == IndexOf(s, StrNewline, 0)
    IN  IF p = -1 THEN <<s>>
        ELSE <<Substring(s, 0, p)>> \o SplitLines(Substring(s, p + 1, Len(s)))

\* line.replace(/\r$/, '')
StripCR(line) ==
    IF line # <<>> /\ line[Len(line)] = 13 THEN SubSeq(line, 1, Len(line) - 1) ELSE line

\* the entry object parseLlf builds: it has no extraValue property
LlfEntry(label, value) == [label |-> label, value |-> value, extraValue |-> <<>>]

\* the part of the loop body after the multi-line branch: the comment is cut
\* off, then a line with ': ' sets the label and writes an entry or opens a block
LlfOrdinaryLine(line0, st) ==
    LET commentIndex == IndexOf(line0, StrHash, 0)
        beforeComment == Substring(line0, 0, commentIndex)
        line == IF commentIndex # -1 THEN beforeComment ELSE line0
        separatorIndex == IndexOf(line, StrSeparator, 0)
        label == TrimCodes(Substring(line, 0, separatorIndex))
        valuePart == TrimCodes(Substring(line, separatorIndex + 2, Len(line)))
        isMultiline == StartsWith(valuePart, StrGreater)
    IN  IF commentIndex # -1 /\ TrimCodes(beforeComment) = <<>> THEN st
        ELSE IF separatorIndex = -1 THEN st
        ELSE IF isMultiline
        THEN [st EXCEPT !.currentLabel = label,
                        !.currentValue = TrimCodes(Substring(valuePart, 1, Len(valuePart))),
                        !.inMultilineBlock = TRUE]
        ELSE [st EXCEPT !.currentLabel = label,
                        !.writes = Append(@, LlfEntry(label, valuePart))]

\* one iteration of the loop over the lines
LlfLine(rawLine, st) ==
    LET line == StripCR(rawLine)
    IN  IF TrimCodes(line) = <<>> THEN st
        ELSE IF st.inMultilineBlock
        THEN IF StartsWith(line, StrTwoSpaces)
             THEN [st EXCEPT !.currentValue = @ \o StrNewline \o Substring(line, 2, Len(line))]
             ELSE [st EXCEPT !.writes = Append(@, LlfEntry(st.currentLabel, st.currentValue)),
                             !.inMultilineBlock = FALSE,
                             !.currentLabel = <<>>,
                             !.currentValue = <<>>]
        ELSE LlfOrdinaryLine(line, st)

RECURSIVE LlfLoop(_, _)
LlfLoop(lines, st) ==
    IF lines = <<>> THEN st ELSE LlfLoop(Tail(lines), LlfLine(Head(lines), st))

\* parseLlf(content, filePath): the entries it writes into mergedLabels and
\* into the file's index, in order; it always reaches fileLabels.set
ParseLlf(content) ==
    LET st == LlfLoop(SplitLines(content),
                      [currentLabel |-> <<>>, currentValue |-> <<>>,
                       inMultilineBlock |-> FALSE, writes |-> <<>>])
    IN  IF st.inMultilineBlock /\ st.currentLabel # <<>> /\ st.currentValue # <<>>
        THEN Append(st.writes, LlfEntry(st.currentLabel, st.currentValue))
        ELSE st.writes

(***************************************************************************)
(* Input texts: up to MaxLlfLines lines joined by '\n'                     *)
(***************************************************************************)
LineOpen == <<65, 58, 32, 62>>                  \* "A: >"
LineOpenText == <<67, 58, 32, 62, 32, 116>>     \* "C: > t"
LineOne == <<32, 32, 120>>                      \* "  x"
LineTwo == <<32, 32, 121, 13>>                  \* "  y\r"
LineSimple == <<66, 58, 32, 115>>               \* "B: s"
LineCommented == <<68, 58, 32, 118, 32, 35, 99>>   \* "D: v #c"
LineBlank == <<>>

LlfLines == {LineOpen, LineOpenText, LineOne, LineTwo, LineSimple, LineCommented, LineBlank}

RECURSIVE JoinLines(_)
JoinLines(lines) ==
    IF lines = <<>> THEN <<>>
    ELSE IF Len(lines) = 1 THEN Head(lines)
    ELSE Head(lines) \o StrNewline \o JoinLines(Tail(lines))

LlfTexts == {JoinLines(ls) : ls \in SeqsUpTo(LlfLines, MaxLlfLines)}

\* the path of the text file being decoded
LlfPath == "b.llf"

\* parseLlf(content, filePath) on the CsfManager
ParseLlfCall ==
    /\ llfPhase = "ready"
    /\ \E w \in {ParseLlf(llfContent)} :
           /\ llfWrites' = w
           /\ mergedLabels' = SetAll(mergedLabels, w)
           /\ fileLabels' = MapSet(fileLabels, LlfPath, SetAll(EmptyMap, w))
    /\ llfPhase' = "parsed"
    /\ UNCHANGED <<llfContent, archive, buffer, csfPhase, csfOutcome, csfWrites>>
    /\ UNCHANGED <<tokVars, xorVars, mgrVars, descVars, moreVars>>


(***************************************************************************)
(* The manager: the constructor's watcher and initial scan, reloadFile,    *)
(* removeFile, indexWorkspaceFiles and the queries.  An async function     *)
(* runs without interruption between two awaits; each await is a point     *)
(* where any other pending continuation or watcher event may run first.    *)
(***************************************************************************)
\* the files findFiles('**/*.csf') and findFiles('**/*.llf') can return, in
\* the order they are returned
CsfPaths == <<FilePath>>
LlfPaths == <<LlfPath>>

Range(s) == {s[k] : k \in DOMAIN s}

\* uri.fsPath.toLowerCase().endsWith('.llf')
IsLlf(path) == path \in Range(LlfPaths)

\* ---- the contents the watched files take ----
\* FOO = "A"
BufFOO == EncodeArchive(<<[tag |-> "LBL", name |-> NameFOO, pairs |-> <<PairA>>]>>)
\* Foo = "B中" (extra "x"), B = "A"
BufFooB == EncodeArchive(<<[tag |-> "LBL", name |-> NameFoo, pairs |-> <<PairW>>],
                           [tag |-> "LBL", name |-> NameB, pairs |-> <<PairA>>]>>)
\* BufFOO with the magic overwritten
BufBadHeader == TagXXXX \o SubSeq(BufFOO, 5, Len(BufFOO))
\* BufFooB cut inside the lengths of its second record
BufCut == SubSeq(BufFooB, 1, Len(BufFooB) - Len(EncodeRecord(
              [tag |-> "LBL", name |-> NameB, pairs |-> <<PairA>>])) + 6)

TextFoo == <<102, 111, 111, 58, 32, 118>>      \* "foo: v"
TextB == <<66, 58, 32, 195, 169>>              \* "B: é" in UTF-8

AllContents == {TextFoo, TextB, BufFOO, BufFooB, BufBadHeader, BufCut}

ContentsOf(path) ==
    IF IsLlf(path) THEN {TextFoo, TextB}
    ELSE {BufFOO, BufFooB, BufBadHeader, BufCut}

Absent == [exists |-> FALSE, bytes |-> <<>>]
Present(bytes) == [exists |-> TRUE, bytes |-> bytes]

\* buffer.toString('utf-8') for one-, two- and three-byte sequences; a byte
\* that starts no such sequence becomes U+FFFD
RECURSIVE Utf8ToString(_)
Utf8ToString(b) ==
    IF b = <<>> THEN <<>>
    ELSE IF b[1] < 128 THEN <<b[1]>> \o Utf8ToString(Tail(b))
    ELSE IF b[1] \in 194..223 /\ Len(b) >= 2 /\ b[2] \in 128..191
    THEN <<(b[1] - 192) * 64 + (b[2] - 128)>> \o Utf8ToString(SubSeq(b, 3, Len(b)))
    ELSE IF b[1] \in 224..239 /\ Len(b) >= 3 /\ b[2] \in 128..191 /\ b[3] \in 128..191
    THEN <<(b[1] - 224) * 4096 + (b[2] - 128) * 64 + (b[3] - 128)>>
         \o Utf8ToString(SubSeq(b, 4, Len(b)))
    ELSE <<65533>> \o Utf8ToString(Tail(b))

\* the try block of reloadFile once the file is read: parseLlf or parseCsf
ParseFile(path, bytes) ==
    IF IsLlf(path)
    THEN [outcome |-> "completed", writes |-> ParseLlf(Utf8ToString(bytes))]
    ELSE ParseCsf(bytes)

\* getLabel(labelName): the entry, or nothing for undefined
GetLabelExact(labelName) ==
    IF labelName \in DOMAIN mergedLabels THEN <<mergedLabels[labelName]>> ELSE <<>>

GetLabel(labelName) ==
    IF ToLowerCase(labelName) \in DOMAIN mergedLabels
    THEN <<mergedLabels[ToLowerCase(labelName)]>>
    ELSE <<>>

\* getLabelsByFile(uri): the file's index, or nothing for undefined
GetLabelsByFile(path) ==
    IF path \in DOMAIN fileLabels THEN <<fileLabels[path]>> ELSE <<>>

\* Map.prototype.delete
MapDelete(m, key) == [x \in (DOMAIN m) \ {key} |-> m[x]]

RemoveAt(s, k) == SubSeq(s, 1, k - 1) \o SubSeq(s, k + 1, Len(s))

\* the paths of order that exist on the disk d
RECURSIVE FindFiles(_, _)
FindFiles(order, d) ==
    IF order = <<>> THEN <<>>
    ELSE (IF d[Head(order)].exists THEN <<Head(order)>> ELSE <<>>) \o FindFiles(Tail(order), d)

\* a call of indexWorkspaceFiles suspended at its first await
NewScan(origin, tracked) ==
    [origin |-> origin, tracked |-> tracked, phase |-> "findCsf",
     uris |-> <<>>, i |-> 1, data |-> Absent]

\* history: no parse has ended since construction or the last removeFile
NoLoad == [path |-> "", outcome |-> "none", writes |-> <<>>]

\* a call of reloadFile from the watcher, suspended at await fs.readFile
NewReload(path) == [path |-> path, phase |-> "read", data |-> Absent]

\* history: no rebuild is followed any more
Untrack(ss) == [k \in DOMAIN ss |-> [ss[k] EXCEPT !.tracked = FALSE]]

\* history: a step after the end of the followed rebuild
Unsettle == IF settled = "rebuilt" THEN "none" ELSE settled

\* history: the entry of the last write of writes under key
LastWriteOf(writes, key) ==
    writes[CHOOSE i \in DOMAIN writes :
               /\ ToLowerCase(writes[i].label) = key
               /\ \A j \in DOMAIN writes : ToLowerCase(writes[j].label) = key => j <= i]

WrittenKeys(writes) == {ToLowerCase(writes[i].label) : i \in DOMAIN writes}

\* the parse of reloadFile on the bytes read from path: parseCsf may return
\* early or throw into reloadFile's catch after some writes
LoadEffect(path, bytes) ==
    \E r \in {ParseFile(path, bytes)} :
        /\ mergedLabels' = SetAll(mergedLabels, r.writes)
        /\ fileLabels' = IF r.outcome = "completed"
                         THEN MapSet(fileLabels, path, SetAll(EmptyMap, r.writes))
                         ELSE fileLabels
        /\ lastLoad' = [path |-> path, outcome |-> r.outcome, writes |-> r.writes]
        /\ latest' = IF removed THEN latest
                      ELSE [k \in (DOMAIN latest) \cup WrittenKeys(r.writes) |->
                               IF k \in WrittenKeys(r.writes) THEN LastWriteOf(r.writes, k)
                               ELSE latest[k]]
        /\ threw' = (threw \/ r.outcome = "threw")

\* a file appears: the watcher's onDidCreate handler starts reloadFile
FileCreate ==
    /\ events < MaxEvents
    /\ \E p \in DOMAIN disk : \E c \in ContentsOf(p) :
           /\ ~disk[p].exists
           /\ disk' = [disk EXCEPT ![p] = Present(c)]
           /\ reloads' = Append(reloads, NewReload(p))
    /\ events' = events + 1
    /\ scans' = Untrack(scans)
    /\ settled' = "none"
    /\ UNCHANGED <<initialized, lastLoad, latest, removed, threw>>
    /\ UNCHANGED <<tokVars, csfVars, xorVars, llfVars, descVars, moreVars>>

\* a file is rewritten: the watcher's onDidChange handler starts reloadFile
FileChange ==
    /\ events < MaxEvents
    /\ \E p \in DOMAIN disk : \E c \in ContentsOf(p) :
           /\ disk[p].exists
           /\ disk[p].bytes # c
           /\ disk' = [disk EXCEPT ![p] = Present(c)]
           /\ reloads' = Append(reloads, NewReload(p))
    /\ events' = events + 1
    /\ scans' = Untrack(scans)
    /\ settled' = "none"
    /\ UNCHANGED <<initialized, lastLoad, latest, removed, threw>>
    /\ UNCHANGED <<tokVars, csfVars, xorVars, llfVars, descVars, moreVars>>

\* a file disappears: the watcher's onDidDelete handler runs removeFile, which
\* starts indexWorkspaceFiles without awaiting it
FileDelete ==
    /\ events < MaxEvents
    /\ \E p \in DOMAIN disk :
           /\ disk[p].exists
           /\ disk' = [disk EXCEPT ![p] = Absent]
           /\ fileLabels' = MapDelete(fileLabels, p)
    /\ mergedLabels' = EmptyMap
    /\ scans' = Append(Untrack(scans), NewScan("delete", TRUE))
    /\ events' = events + 1
    /\ settled' = "rebuilding"
    /\ removed' = TRUE
    /\ lastLoad' = NoLoad
    /\ latest' = EmptyMap
    /\ UNCHANGED <<reloads, initialized, threw>>
    /\ UNCHANGED <<archive, buffer, csfPhase, csfOutcome, csfWrites>>
    /\ UNCHANGED <<tokVars, xorVars, llfVars, descVars, moreVars>>

\* reloadFile of the watcher: fs.readFile settles; a rejection goes to the
\* catch and ends the call
ReloadRead ==
    /\ \E k \in DOMAIN reloads :
           /\ reloads[k].phase = "read"
           /\ reloads' = IF disk[reloads[k].path].exists
                         THEN [reloads EXCEPT ![k].phase = "parse",
                                              ![k].data = disk[reloads[k].path]]
                         ELSE RemoveAt(reloads, k)
    /\ settled' = Unsettle
    /\ UNCHANGED <<disk, scans, initialized, events, lastLoad, latest, removed, threw>>
    /\ UNCHANGED <<tokVars, csfVars, xorVars, llfVars, descVars, moreVars>>

\* reloadFile of the watcher: the continuation decodes the buffer it read
ReloadParse ==
    /\ \E k \in DOMAIN reloads :
           /\ reloads[k].phase = "parse"
           /\ LoadEffect(reloads[k].path, reloads[k].data.bytes)
           /\ reloads' = RemoveAt(reloads, k)
    /\ settled' = Unsettle
    /\ UNCHANGED <<disk, scans, initialized, events, removed>>
    /\ UNCHANGED <<archive, buffer, csfPhase, csfOutcome, csfWrites>>
    /\ UNCHANGED <<tokVars, xorVars, llfVars, descVars, moreVars>>

\* indexWorkspaceFiles: findFiles('**/*.csf') settles
ScanFindCsf ==
    /\ \E k \in DOMAIN scans :
           /\ scans[k].phase = "findCsf"
           /\ scans' = [scans EXCEPT ![k].phase = "findLlf",
                                     ![k].uris = FindFiles(CsfPaths, disk)]
    /\ settled' = Unsettle
    /\ UNCHANGED <<disk, reloads, initialized, events, lastLoad, latest, removed, threw>>
    /\ UNCHANGED <<tokVars, csfVars, xorVars, llfVars, descVars, moreVars>>

\* an end of indexWorkspaceFiles that sets _isInitialized whoever called it
ScanEndsAnyCaller(k) ==
    /\ scans' = RemoveAt(scans, k)
    /\ initialized' = TRUE
    /\ settled' = IF scans[k].tracked THEN "rebuilt" ELSE Unsettle

\* the end of a call of indexWorkspaceFiles: the constructor's then-callback
\* sets _isInitialized
ScanEnds(k) ==
    /\ scans' = RemoveAt(scans, k)
    /\ initialized' = (initialized \/ scans[k].origin = "init")
    /\ settled' = IF scans[k].tracked THEN "rebuilt" ELSE Unsettle

\* the loop of indexWorkspaceFiles after the file at i: the next reloadFile,
\* or the end of the call
ScanAdvances(k) ==
    IF scans[k].i < Len(scans[k].uris)
    THEN /\ scans' = [scans EXCEPT ![k].phase = "read", ![k].i = @ + 1, ![k].data = Absent]
         /\ settled' = Unsettle
         /\ UNCHANGED initialized
    ELSE ScanEnds(k)

\* indexWorkspaceFiles: findFiles('**/*.llf') settles, the loop starts
ScanFindLlf ==
    /\ \E k \in DOMAIN scans :
           /\ scans[k].phase = "findLlf"
           /\ \E all \in {scans[k].uris \o FindFiles(LlfPaths, disk)} :
                  IF all = <<>>
                  THEN ScanEnds(k)
                  ELSE /\ scans' = [scans EXCEPT ![k].phase = "read", ![k].uris = all]
                       /\ settled' = Unsettle
                       /\ UNCHANGED initialized
    /\ UNCHANGED <<disk, reloads, events, lastLoad, latest, removed, threw>>
    /\ UNCHANGED <<tokVars, csfVars, xorVars, llfVars, descVars, moreVars>>

\* reloadFile awaited by the loop: fs.readFile settles; a rejection goes to
\* the catch and the loop goes on
ScanRead ==
    /\ \E k \in DOMAIN scans :
           /\ scans[k].phase = "read"
           /\ IF disk[scans[k].uris[scans[k].i]].exists
              THEN /\ scans' = [scans EXCEPT ![k].phase = "parse",
                                             ![k].data = disk[scans[k].uris[scans[k].i]]]
                   /\ settled' = Unsettle
                   /\ UNCHANGED initialized
              ELSE ScanAdvances(k)
    /\ UNCHANGED <<disk, reloads, events, lastLoad, latest, removed, threw>>
    /\ UNCHANGED <<tokVars, csfVars, xorVars, llfVars, descVars, moreVars>>

\* reloadFile awaited by the loop: the continuation decodes the buffer it
\* read, then the loop goes on
ScanParse ==
    /\ \E k \in DOMAIN scans :
           /\ scans[k].phase = "parse"
           /\ LoadEffect(scans[k].uris[scans[k].i], scans[k].data.bytes)
           /\ ScanAdvances(k)
    /\ UNCHANGED <<disk, reloads, events, removed>>
    /\ UNCHANGED <<archive, buffer, csfPhase, csfOutcome, csfWrites>>
    /\ UNCHANGED <<tokVars, xorVars, llfVars, descVars, moreVars>>

\* initializationPromise, the promise of indexWorkspaceFiles().then(...) made by
\* the constructor, is fulfilled: the constructor's call has ended and the
\* callback has run
InitializationSettled == \A k \in DOMAIN scans : scans[k].origin # "init"

\* waitForInitialization(), up to its await; initializationPromise is never null
\* after the constructor
WaitForInitialization ==
    /\ waiter = "none"
    /\ waiter' = "waiting"
    /\ UNCHANGED <<tokVars, csfVars, xorVars, llfVars, mgrVars, descVars, dlVars, legacyVars>>

\* waitForInitialization(): the continuation after its await
WaitResolves ==
    /\ waiter = "waiting"
    /\ InitializationSettled
    /\ waiter' = "resolved"
    /\ UNCHANGED <<tokVars, csfVars, xorVars, llfVars, mgrVars, descVars, dlVars, legacyVars>>


(***************************************************************************)
(* MultilineIniParser: the description-file parser                         *)
(*                                                                         *)
(* A text is a sequence of one-character strings.  A parse result maps a   *)
(* section name to a DescriptionSection [properties, base]; properties     *)
(* maps a key to its value, and base is <<>> for null and <<name>> for a   *)
(* string.                                                                 *)
(***************************************************************************)
LF == "\n"
CR == "\r"

\* the white space String.prototype.trim removes, on the alphabet of the texts
IsTrimSpace(c) == c \in {" ", "\t", LF, CR}

RECURSIVE LeadingTrimSpaces(_)
LeadingTrimSpaces(s) ==
    IF s = <<>> \/ ~IsTrimSpace(Head(s)) THEN 0 ELSE 1 + LeadingTrimSpaces(Tail(s))

RECURSIVE TrailingTrimSpaces(_)
TrailingTrimSpaces(s) ==
    IF s = <<>> \/ ~IsTrimSpace(s[Len(s)]) THEN 0
    ELSE 1 + TrailingTrimSpaces(SubSeq(s, 1, Len(s) - 1))

\* s.trim()
TrimJs(s) ==
    IF LeadingTrimSpaces(s) = Len(s) THEN <<>>
    ELSE SubSeq(s, LeadingTrimSpaces(s) + 1, Len(s) - TrailingTrimSpaces(s))

\* content.split(/\r?\n/); acc is the piece being collected
RECURSIVE SplitContent(_, _)
SplitContent(content, acc) ==
    IF content = <<>> THEN <<acc>>
    ELSE IF Head(content) = LF
    THEN <<acc>> \o SplitContent(Tail(content), <<>>)
    ELSE IF Head(content) = CR /\ Len(content) >= 2 /\ content[2] = LF
    THEN <<acc>> \o SplitContent(Tail(Tail(content)), <<>>)
    ELSE SplitContent(Tail(content), Append(acc, Head(content)))

\* null and a string as a DescriptionSection's base
Null == <<>>
Str(s) == <<s>>

\* a string is truthy when it is not empty; null is falsy
Truthy(s) == s # <<>>
BaseTruthy(b) == b # Null /\ b[1] # <<>>

\* the length of the longest run of characters outside stop in s from the
\* 0-based position from
RunFrom(s, from, stop) == RunLength(Substring(s, from, Len(s)), stop)

\* trimmedLine.match(/^\[([^\]:]+)(?::\[([^\]]+)\])?\]$/): group 1 and group 2
\* (<<>> when the optional group did not take part)
SectionMatch(t) ==
    LET n == RunFrom(t, 1, {"]", ":"})
        after == 1 + n
        m == RunFrom(t, after + 2, {"]"})
        end == after + 2 + m
    IN  IF Len(t) < 1 \/ t[1] # "[" \/ n = 0 THEN [ok |-> FALSE]
        ELSE IF Len(t) = after + 1 /\ t[after + 1] = "]"
        THEN [ok |-> TRUE, name |-> Substring(t, 1, after), base |-> Null]
        ELSE IF /\ Len(t) >= after + 2
                /\ t[after + 1] = ":"
                /\ t[after + 2] = "["
                /\ m >= 1
                /\ Len(t) = end + 2
                /\ t[end + 1] = "]"
                /\ t[end + 2] = "]"
        THEN [ok |-> TRUE, name |-> Substring(t, 1, after),
              base |-> Str(Substring(t, after + 2, end))]
        ELSE [ok |-> FALSE]

\* saveKeyValue(result, section, key, value)
SaveKeyValue(result, section, key, value) ==
    IF ~Truthy(section) \/ ~Truthy(key) THEN result
    ELSE LET r == IF section \in DOMAIN result THEN result
                  ELSE MapSet(result, section, [properties |-> EmptyMap, base |-> Null])
         IN  [r EXCEPT ![section].properties = MapSet(@, key, value)]

\* the local variables of parse before its loop
IniStart ==
    [result |-> EmptyMap, currentSection |-> <<>>, currentKey |-> <<>>,
     currentValue |-> <<>>, inMultilineString |-> FALSE]

\* if (currentKey && currentValue) saveKeyValue(...)
SavePending(st) ==
    IF Truthy(st.currentKey) /\ Truthy(st.currentValue)
    THEN SaveKeyValue(st.result, st.currentSection, st.currentKey, st.currentValue)
    ELSE st.result

\* the loop body of parse for a line inside a multi-line string
IniStringLine(line, st) ==
    LET endIndex == IndexOf(line, Q3, 0)
        value == st.currentValue \o <<LF>> \o Substring(line, 0, endIndex)
    IN  IF endIndex # -1
        THEN [st EXCEPT !.result = SaveKeyValue(st.result, st.currentSection,
                                                st.currentKey, value),
                        !.inMultilineString = FALSE,
                        !.currentKey = <<>>,
                        !.currentValue = <<>>]
        ELSE [st EXCEPT !.currentValue = st.currentValue \o <<LF>> \o line]

\* the loop body of parse for a line matched as a section header
IniSectionLine(sectionMatch, st) ==
    LET name == TrimJs(sectionMatch.name)
        baseSection == IF sectionMatch.base # Null /\ Truthy(sectionMatch.base[1])
                       THEN Str(TrimJs(sectionMatch.base[1])) ELSE Null
        saved == SavePending(st)
    IN  [st EXCEPT !.currentSection = name,
                   !.currentKey = <<>>,
                   !.currentValue = <<>>,
                   !.result =
                       IF name \notin DOMAIN saved
                       THEN MapSet(saved, name, [properties |-> EmptyMap,
                                                 base |-> baseSection])
                       ELSE IF BaseTruthy(baseSection)
                       THEN [saved EXCEPT ![name].base = baseSection]
                       ELSE saved]

\* the loop body of parse for a line holding '='
IniKeyValueLine(line, equalsIndex, st) ==
    LET saved == SavePending(st)
        key == TrimJs(Substring(line, 0, equalsIndex))
        value == TrimJs(Substring(line, equalsIndex + 1, Len(line)))
        opened == Substring(value, 3, Len(value))
        endIndex == IndexOf(opened, Q3, 0)
    IN  IF Len(value) >= 3 /\ SubSeq(value, 1, 3) = Q3
        THEN IF endIndex # -1
             THEN [st EXCEPT !.result = SaveKeyValue(saved, st.currentSection, key,
                                                     Substring(opened, 0, endIndex)),
                             !.inMultilineString = FALSE,
                             !.currentKey = <<>>,
                             !.currentValue = <<>>]
             ELSE [st EXCEPT !.result = saved,
                             !.inMultilineString = TRUE,
                             !.currentKey = key,
                             !.currentValue = opened]
        ELSE [st EXCEPT !.result = SaveKeyValue(saved, st.currentSection, key, value),
                        !.currentKey = <<>>,
                        !.currentValue = <<>>]

\* one iteration of the loop of parse
IniLine(line, st) ==
    LET trimmedLine == TrimJs(line)
        sectionMatch == SectionMatch(trimmedLine)
        equalsIndex == IndexOf(line, <<"=">>, 0)
    IN  IF st.inMultilineString THEN IniStringLine(line, st)
        ELSE IF trimmedLine = <<>> THEN st
        ELSE IF trimmedLine[1] = ";" THEN st
        ELSE IF sectionMatch.ok THEN IniSectionLine(sectionMatch, st)
        ELSE IF equalsIndex # -1 THEN IniKeyValueLine(line, equalsIndex, st)
        ELSE st

RECURSIVE IniLoop(_, _)
IniLoop(lines, st) ==
    IF lines = <<>> THEN st ELSE IniLoop(Tail(lines), IniLine(Head(lines), st))

\* MultilineIniParser.parse(content)
ParseIni(content) == SavePending(IniLoop(SplitContent(content, <<>>), IniStart))

\* the lines description texts are made of
IniHeaderA == <<"[", "A", "]">>                                   \* [A]
IniHeaderB == <<"[", "B", "]">>                                   \* [B]
IniHeaderDialect == <<"[", "A", "]", ":", "[", "B", "]">>         \* [A]:[B]
IniHeaderNested == <<"[", "A", ":", "[", "B", "]", "]">>          \* [A:[B]]
IniKeyV == <<"k", "=", "v">>                                      \* k=v
IniKeyW == <<" ", "k", " ", "=", " ", "w", CR>>                   \* " k = w\r"
IniKeyOpen == <<"j", "=", Q, Q, Q, "x">>                          \* j="""x
IniClose == <<"y", Q, Q, Q, "z">>                                 \* y"""z
IniComment == <<";", "[", "B", "]">>                              \* ;[B]
IniKeyEmpty == <<"k", "=">>                                       \* k=

IniLines ==
    {IniHeaderA, IniHeaderB, IniHeaderDialect, IniHeaderNested, IniKeyV, IniKeyW,
     IniKeyOpen, IniClose, IniComment, IniKeyEmpty}

\* lines joined by '\n'
RECURSIVE JoinIni(_)
JoinIni(lines) ==
    IF lines = <<>> THEN <<>>
    ELSE IF Len(lines) = 1 THEN lines[1]
    ELSE lines[1] \o <<LF>> \o JoinIni(Tail(lines))

IniTexts == {JoinIni(ls) : ls \in SeqsUpTo(IniLines, MaxIniLines)}

\* texts with one multi-line value: a header, the line that opens the value,
\* up to MaxBlockLines lines, the line that closes it, and what follows
BlockOpenLines ==
    { IniKeyOpen,                                   \* j="""x
      <<"j", "=", Q, Q, Q, "x", " ">>,              \* j="""x followed by a space
      <<" ", "j", " ", "=", " ", Q, Q, Q>>,         \* " j = """"
      <<"j", "=", Q, Q, Q, " ", "x">> }             \* j=""" x
BlockMiddleLines ==
    { IniHeaderB, IniComment, IniKeyV, <<>>,
      <<" ", "y", " ">>,                            \* " y "
      <<"y", CR>> }                                 \* "y\r"
BlockCloseLines ==
    { IniClose,                                     \* y"""z
      Q3,                                           \* """
      <<" ", Q, Q, Q, "[", "B", "]">>,              \* " """[B]"
      <<"k", "=", "v", Q, Q, Q>> }                  \* k=v"""
BlockAfterLines == {<<>>, <<IniKeyV>>, <<IniHeaderB, IniKeyEmpty>>, <<IniKeyW>>}
BlockTexts ==
    {JoinIni(<<IniHeaderA, o>> \o m \o <<c>> \o a) :
        o \in BlockOpenLines, m \in SeqsUpTo(BlockMiddleLines, MaxBlockLines),
        c \in BlockCloseLines, a \in BlockAfterLines}

\* parser.parse(content), called on its own
ParseIniCall ==
    /\ iniPhase = "ready"
    /\ iniPhase' = "done"
    /\ parsed' = ParseIni(iniContent)
    /\ UNCHANGED iniContent
    /\ UNCHANGED <<storeVars, walkVars, dictVars>>
    /\ UNCHANGED <<tokVars, csfVars, xorVars, llfVars, mgrVars, moreVars>>

(***************************************************************************)
(* DescriptionManager                                                      *)
(*                                                                         *)
(* A language code is a text.  descriptions maps a language code to a      *)
(* parse result.  A value of type string | undefined (or string | null) is *)
(* <<>> when absent and <<text>> otherwise.                                *)
(*                                                                         *)
(* getDescription runs without await; the loop of findDescriptionRecursive *)
(* is modelled one iteration per step, so that the length of a walk is     *)
(* visible in the states.                                                  *)
(***************************************************************************)
UpperLetters ==
    <<"A", "B", "C", "D", "E", "F", "G", "H", "I", "J", "K", "L", "M",
      "N", "O", "P", "Q", "R", "S", "T", "U", "V", "W", "X", "Y", "Z">>
LowerLetters ==
    <<"a", "b", "c", "d", "e", "f", "g", "h", "i", "j", "k", "l", "m",
      "n", "o", "p", "q", "r", "s", "t", "u", "v", "w", "x", "y", "z">>

\* the position of c in letters, 0 when it is not one of them
LetterIndex(letters, c) ==
    IF \E k \in 1..Len(letters) : letters[k] = c
    THEN CHOOSE k \in 1..Len(letters) : letters[k] = c
    ELSE 0

\* s.toLowerCase() and s.toUpperCase()
LowerCaseText(s) ==
    [k \in 1..Len(s) |-> IF LetterIndex(UpperLetters, s[k]) # 0
                         THEN LowerLetters[LetterIndex(UpperLetters, s[k])] ELSE s[k]]
UpperCaseText(s) ==
    [k \in 1..Len(s) |-> IF LetterIndex(LowerLetters, s[k]) # 0
                         THEN UpperLetters[LetterIndex(LowerLetters, s[k])] ELSE s[k]]

\* language.split('-')
RECURSIVE SplitDash(_)
SplitDash(s) ==
    LET p == IndexOf(s, <<"-">>, 0)
    IN  IF p = -1 THEN <<s>>
        ELSE <<Substring(s, 0, p)>> \o SplitDash(Substring(s, p + 1, Len(s)))

\* normalizeLanguageCode(language)
NormalizeLanguageCode(language) ==
    LET parts == SplitDash(language)
    IN  IF ~Truthy(language) THEN language
        ELSE IF Len(parts) = 2
        THEN LowerCaseText(parts[1]) \o <<"-">> \o UpperCaseText(parts[2])
        ELSE LowerCaseText(language)

EnUS == <<"e", "n", "-", "U", "S">>         \* 'en-US'

\* the state of a DescriptionManager after construction
DescConstructed ==
    /\ descriptions = EmptyMap
    /\ currentLanguage = EnUS
    /\ descriptionDir = Null

\* no call of getDescription has been made
NoQuery ==
    /\ query = [section |-> <<>>, key |-> <<>>]
    /\ attempt = 0
    /\ walkLanguage = <<>>
    /\ walkSection = Null
    /\ visited = <<>>
    /\ descResult = Null

\* the arguments the calls are made with
SectionA == <<"A">>
SectionB == <<"B">>
SectionC == <<"C">>
SectionD == <<"D">>
KeyK == <<"k">>
QuerySections == {SectionA, SectionB, SectionC, SectionD}
LanguageArguments ==
    { <<"z", "h", "-", "c", "n">>,          \* 'zh-cn'
      <<"E", "N", "-", "u", "s">>,          \* 'EN-us'
      <<"F", "R">>,                         \* 'FR'
      <<"z", "h", "-", "C", "N">>,          \* 'zh-CN'
      EnUS }

\* setLanguage(language)
SetLanguage ==
    /\ descPhase = "idle"
    /\ \E language \in LanguageArguments :
           currentLanguage' = NormalizeLanguageCode(language)
    /\ UNCHANGED <<descriptions, descriptionDir>>
    /\ UNCHANGED walkVars
    /\ UNCHANGED <<iniVars, dictVars>>
    /\ UNCHANGED <<tokVars, csfVars, xorVars, llfVars, mgrVars, moreVars>>

\* getDescription(sectionName, keyName), up to the first call of
\* findDescriptionRecursive
GetDescription ==
    /\ descPhase = "idle"
    /\ \E sectionName \in QuerySections :
           /\ query' = [section |-> sectionName, key |-> KeyK]
           /\ walkSection' = Str(sectionName)
    /\ attempt' = 1
    /\ walkLanguage' = currentLanguage
    /\ visited' = <<>>
    /\ descPhase' = "walk"
    /\ descResult' = Null
    /\ UNCHANGED storeVars
    /\ UNCHANGED <<iniVars, dictVars>>
    /\ UNCHANGED <<tokVars, csfVars, xorVars, llfVars, mgrVars, moreVars>>

\* findDescriptionRecursive: langDescriptions
LangDescriptions == descriptions[NormalizeLanguageCode(walkLanguage)]

\* findDescriptionRecursive: the language is not loaded, return undefined
WalkNoLanguage ==
    /\ descPhase = "walk"
    /\ NormalizeLanguageCode(walkLanguage) \notin DOMAIN descriptions
    /\ descPhase' = "miss"
    /\ UNCHANGED <<query, attempt, walkLanguage, walkSection, visited, descResult>>
    /\ UNCHANGED storeVars
    /\ UNCHANGED <<iniVars, dictVars>>
    /\ UNCHANGED <<tokVars, csfVars, xorVars, llfVars, mgrVars, moreVars>>

\* a loop condition without the visited set
WalkContinuesUnguarded == BaseTruthy(walkSection)

\* the condition of the while loop of findDescriptionRecursive
WalkContinues == BaseTruthy(walkSection) /\ walkSection[1] \notin Range(visited)

\* a walk that never goes to the base
NextSectionNone(sectionData) == Null

\* currentSection = sectionData.base
NextSection(sectionData) == sectionData.base

\* a test that takes an empty description for a description
HasDescriptionOrEmpty(sectionData, keyName) == keyName \in DOMAIN sectionData.properties

\* desc !== undefined && desc !== ''
HasDescription(sectionData, keyName) ==
    /\ keyName \in DOMAIN sectionData.properties
    /\ sectionData.properties[keyName] # <<>>

\* findDescriptionRecursive: one iteration of the while loop
WalkIterate ==
    /\ descPhase = "walk"
    /\ NormalizeLanguageCode(walkLanguage) \in DOMAIN descriptions
    /\ WalkContinues
    /\ visited' = Append(visited, walkSection[1])
    /\ IF walkSection[1] \notin DOMAIN LangDescriptions
       THEN /\ descPhase' = "miss"
            /\ UNCHANGED <<walkSection, descResult>>
       ELSE LET sectionData == LangDescriptions[walkSection[1]]
            IN  IF HasDescription(sectionData, query.key)
                THEN /\ descResult' = Str(sectionData.properties[query.key])
                     /\ descPhase' = "done"
                     /\ UNCHANGED walkSection
                ELSE /\ walkSection' = NextSection(sectionData)
                     /\ UNCHANGED <<descPhase, descResult>>
    /\ UNCHANGED <<query, attempt, walkLanguage>>
    /\ UNCHANGED storeVars
    /\ UNCHANGED <<iniVars, dictVars>>
    /\ UNCHANGED <<tokVars, csfVars, xorVars, llfVars, mgrVars, moreVars>>

\* findDescriptionRecursive: the while condition fails, return undefined
WalkEnds ==
    /\ descPhase = "walk"
    /\ NormalizeLanguageCode(walkLanguage) \in DOMAIN descriptions
    /\ ~WalkContinues
    /\ descPhase' = "miss"
    /\ UNCHANGED <<query, attempt, walkLanguage, walkSection, visited, descResult>>
    /\ UNCHANGED storeVars
    /\ UNCHANGED <<iniVars, dictVars>>
    /\ UNCHANGED <<tokVars, csfVars, xorVars, llfVars, mgrVars, moreVars>>

\* a fallback that walks any loaded language
FallbackAnyLanguage ==
    /\ descPhase = "miss"
    /\ attempt = 1
    /\ \E language \in DOMAIN descriptions :
           /\ language # currentLanguage
           /\ walkLanguage' = language
    /\ attempt' = 2
    /\ walkSection' = Str(query.section)
    /\ visited' = <<>>
    /\ descPhase' = "walk"
    /\ UNCHANGED <<query, descResult>>
    /\ UNCHANGED storeVars
    /\ UNCHANGED <<iniVars, dictVars>>
    /\ UNCHANGED <<tokVars, csfVars, xorVars, llfVars, mgrVars, moreVars>>

\* getDescription: the first walk returned undefined and the current language
\* is not 'en-US': call findDescriptionRecursive for 'en-US'
Fallback ==
    /\ descPhase = "miss"
    /\ attempt = 1
    /\ currentLanguage # EnUS
    /\ attempt' = 2
    /\ walkLanguage' = EnUS
    /\ walkSection' = Str(query.section)
    /\ visited' = <<>>
    /\ descPhase' = "walk"
    /\ UNCHANGED <<query, descResult>>
    /\ UNCHANGED storeVars
    /\ UNCHANGED <<iniVars, dictVars>>
    /\ UNCHANGED <<tokVars, csfVars, xorVars, llfVars, mgrVars, moreVars>>

\* getDescription: return undefined
ReturnUndefined ==
    /\ descPhase = "miss"
    /\ attempt = 2 \/ currentLanguage = EnUS
    /\ descPhase' = "done"
    /\ descResult' = Null
    /\ UNCHANGED <<query, attempt, walkLanguage, walkSection, visited>>
    /\ UNCHANGED storeVars
    /\ UNCHANGED <<iniVars, dictVars>>
    /\ UNCHANGED <<tokVars, csfVars, xorVars, llfVars, mgrVars, moreVars>>

\* the stores a description file can produce over the sections A, B and C:
\* each section absent or with any base among null, A, B, C and with key k
\* absent, empty or set to a value that names the section and the language
SectionNames == {SectionA, SectionB, SectionC}
ValueIn(name, tag) == LowerCaseText(name) \o tag
PropertyChoices(name, tag) ==
    {EmptyMap, MapSet(EmptyMap, KeyK, <<>>), MapSet(EmptyMap, KeyK, ValueIn(name, tag))}
BaseChoices == {Null} \cup {Str(n) : n \in SectionNames}
SectionChoices(name, tag) ==
    {[properties |-> p, base |-> b] : p \in PropertyChoices(name, tag), b \in BaseChoices}
Stores(tag) ==
    UNION {{g \in [D -> UNION {SectionChoices(n, tag) : n \in D}] :
               \A n \in D : g[n] \in SectionChoices(n, tag)} :
           D \in SUBSET SectionNames}

ZhCN == <<"z", "h", "-", "C", "N">>         \* 'zh-CN'
Fr == <<"f", "r">>                          \* 'fr'
TagOf(language) == <<language[1]>>

\* a few stores of one language: empty, A with k, A with k empty, A based on
\* B that has k, B alone with k
FewStores(tag) ==
    { EmptyMap,
      MapSet(EmptyMap, SectionA, [properties |-> MapSet(EmptyMap, KeyK, ValueIn(SectionA, tag)),
                                  base |-> Null]),
      MapSet(EmptyMap, SectionA, [properties |-> MapSet(EmptyMap, KeyK, <<>>), base |-> Null]),
      MapSet(MapSet(EmptyMap, SectionA, [properties |-> EmptyMap, base |-> Str(SectionB)]),
             SectionB, [properties |-> MapSet(EmptyMap, KeyK, ValueIn(SectionB, tag)),
                        base |-> Null]),
      MapSet(EmptyMap, SectionB, [properties |-> MapSet(EmptyMap, KeyK, ValueIn(SectionB, tag)),
                                  base |-> Null]) }

\* the loaded descriptions: every store in 'en-US' alone, and every choice of
\* a few stores in any of 'en-US', 'zh-CN' and 'fr'
LoadedDescriptions ==
    {MapSet(EmptyMap, EnUS, g) : g \in Stores(<<>>)}
    \cup UNION {{d \in [L -> UNION {FewStores(TagOf(l)) : l \in L}] :
                    \A l \in L : d[l] \in FewStores(TagOf(l))} :
                L \in SUBSET {EnUS, ZhCN, Fr}}

(***************************************************************************)
(* DescriptionManager: loading                                             *)
(*                                                                         *)
(* A path is a text.  descFiles maps the paths that exist to [readable,    *)
(* text]: readFileSync throws on a path that does not exist or cannot be   *)
(* read (a directory, a file without permission) and returns the decoded   *)
(* text otherwise.  loadFromFile and loadFromDictionary run without await. *)
(***************************************************************************)
\* fs.existsSync(path)
ExistsSync(path) == path \in DOMAIN descFiles

\* whether fs.readFileSync(path, 'utf-8') returns
Readable(path) == ExistsSync(path) /\ descFiles[path].readable

\* path.isAbsolute(p)
IsAbsolute(p) == p # <<>> /\ p[1] = "/"

\* path.dirname(p), for a path with a directory part
Dirname(p) ==
    LET slashes == {k \in 1..Len(p) : p[k] = "/"}
    IN  IF slashes = {} THEN <<".">>
        ELSE IF SetMax(slashes) = 1 THEN <<"/">>
        ELSE SubSeq(p, 1, SetMax(slashes) - 1)

\* path.join(dir, rel), for a rel without '.', '..' or doubled separators
PathJoin(dir, rel) == IF rel = <<>> THEN dir ELSE dir \o <<"/">> \o rel

\* loadFromFile(filePath, language) on the map descs: what it returns and the
\* map it leaves
LoadFile(descs, filePath, language) ==
    IF Readable(filePath)
    THEN [ok |-> TRUE,
          descriptions |-> MapSet(descs, NormalizeLanguageCode(language),
                                  ParseIni(descFiles[filePath].text))]
    ELSE [ok |-> FALSE, descriptions |-> descs]

\* languageFiles.set(language, filePath) on a Map kept as a sequence of
\* entries in insertion order
EntrySet(entries, language, filePath) ==
    IF \E k \in 1..Len(entries) : entries[k].language = language
    THEN [k \in 1..Len(entries) |->
             IF entries[k].language = language
             THEN [language |-> language, path |-> filePath] ELSE entries[k]]
    ELSE Append(entries, [language |-> language, path |-> filePath])

DescriptionHeader ==
    <<"[", "D", "e", "s", "c", "r", "i", "p", "t", "i", "o", "n", "]">>   \* '[Description]'

\* the first loop of loadFromDictionary over the lines of the main dictionary
RECURSIVE ReadLanguageFiles(_, _, _)
ReadLanguageFiles(lines, inDescriptionSection, languageFiles) ==
    IF lines = <<>> THEN languageFiles
    ELSE LET trimmed == TrimJs(Head(lines))
             equalsIndex == IndexOf(trimmed, <<"=">>, 0)
         IN  IF trimmed = DescriptionHeader
             THEN ReadLanguageFiles(Tail(lines), TRUE, languageFiles)
             ELSE IF trimmed # <<>> /\ trimmed[1] = "["
             THEN ReadLanguageFiles(Tail(lines), FALSE, languageFiles)
             ELSE IF /\ inDescriptionSection
                     /\ Truthy(trimmed)
                     /\ trimmed[1] # ";"
                     /\ equalsIndex # -1
             THEN ReadLanguageFiles(Tail(lines), inDescriptionSection,
                      EntrySet(languageFiles,
                               TrimJs(Substring(trimmed, 0, equalsIndex)),
                               TrimJs(Substring(trimmed, equalsIndex + 1, Len(trimmed)))))
             ELSE ReadLanguageFiles(Tail(lines), inDescriptionSection, languageFiles)

\* a second loop that gives up at the first file that cannot be loaded
RECURSIVE LoadLanguageFilesUntilFailure(_, _, _)
LoadLanguageFilesUntilFailure(entries, mainDictPath, acc) ==
    IF entries = <<>> THEN acc
    ELSE LET relPath == Head(entries).path
             fullPath == IF IsAbsolute(relPath) THEN relPath
                         ELSE PathJoin(Dirname(mainDictPath), relPath)
             loaded == LoadFile(acc.descriptions, fullPath, Head(entries).language)
         IN  IF ExistsSync(fullPath) /\ loaded.ok
             THEN LoadLanguageFilesUntilFailure(Tail(entries), mainDictPath,
                      [loadedAny |-> TRUE, descriptions |-> loaded.descriptions])
             ELSE acc

\* the second loop of loadFromDictionary over the entries of languageFiles
RECURSIVE LoadLanguageFiles(_, _, _)
LoadLanguageFiles(entries, mainDictPath, acc) ==
    IF entries = <<>> THEN acc
    ELSE LET relPath == Head(entries).path
             fullPath == IF IsAbsolute(relPath) THEN relPath
                         ELSE PathJoin(Dirname(mainDictPath), relPath)
             loaded == LoadFile(acc.descriptions, fullPath, Head(entries).language)
         IN  IF ExistsSync(fullPath) /\ loaded.ok
             THEN LoadLanguageFiles(Tail(entries), mainDictPath,
                      [loadedAny |-> TRUE, descriptions |-> loaded.descriptions])
             ELSE LoadLanguageFiles(Tail(entries), mainDictPath, acc)

\* the languageFiles loop of loadFromDictionary, from loadedAny = false
LoadAll(entries, mainDictPath, descs) ==
    LoadLanguageFiles(entries, mainDictPath,
                      [loadedAny |-> FALSE, descriptions |-> descs])

\* loadFromDictionary(mainDictPath): what it returns and the map it leaves
LoadDictionary(mainDictPath) ==
    IF descriptionDir = Null \/ descriptionDir = Str(<<>>) \/ ~Readable(mainDictPath)
    THEN [loadedAny |-> FALSE, descriptions |-> descriptions]
    ELSE LoadAll(ReadLanguageFiles(SplitContent(descFiles[mainDictPath].text, <<>>),
                                   FALSE, <<>>),
                 mainDictPath, descriptions)

\* the paths and texts of the file system
MainDictPath == <<"/", "d", "/", "m">>          \* /d/m
DescDir == <<"/", "d">>                         \* /d
PathZ == <<"/", "d", "/", "z">>                 \* /d/z
PathE == <<"/", "e">>                           \* /e

IniHeaderBOnA == <<"[", "B", ":", "[", "A", "]", "]">>     \* [B:[A]]
IniHeaderCOnB == <<"[", "C", ":", "[", "B", "]", "]">>     \* [C:[B]]

\* A without k, B based on A with k=v, C based on B
TextChain == JoinIni(<<IniHeaderA, IniHeaderBOnA, IniKeyV, IniHeaderCOnB>>)
\* the same with a later header of A that sets A's base to B
TextRebased == JoinIni(<<IniHeaderA, IniHeaderBOnA, IniKeyV, IniHeaderCOnB, IniHeaderNested>>)

\* a path that exists but cannot be read: a directory, a file without permission
Unreadable == [readable |-> FALSE, text |-> <<>>]
File(text) == [readable |-> TRUE, text |-> text]

DictHeader == DescriptionHeader
DictZh == <<"z", "h", "-", "c", "n", "=", "z">>                        \* zh-cn=z
DictEn == <<" ", "e", "n", "-", "U", "S", " ", "=", " ", "/", "e", CR>>  \* " en-US = /e\r"
DictOther == <<"[", "O", "]">>                                         \* [O]
DictZhAgain == <<"Z", "H", "-", "C", "N", "=", "/", "e">>              \* ZH-CN=/e
DictFrEmpty == <<"f", "r", "=">>                                       \* fr=
DictComment == <<";", "f", "r", "=", "z">>                             \* ;fr=z

DictLines == {DictHeader, DictZh, DictEn, DictOther, DictZhAgain, DictFrEmpty, DictComment}
DictTexts == {JoinIni(ls) : ls \in SeqsUpTo(DictLines, MaxDictLines)}

\* a file system with the directory /d and the files chosen: each choice is
\* <<>> for a missing file or <<file>>
WithFile(fs, path, choice) == IF choice = <<>> THEN fs ELSE MapSet(fs, path, choice[1])
FileSystem(main, z, e) ==
    WithFile(WithFile(WithFile(MapSet(EmptyMap, DescDir, Unreadable),
                               MainDictPath, main), PathZ, z), PathE, e)

\* the file systems: the main dictionary missing or with a text, each
\* description file missing, unreadable or with a text
FileSystems ==
    {FileSystem(main, z, e) :
        main \in {<<>>} \cup {<<File(t)>> : t \in DictTexts},
        z \in {<<>>, <<Unreadable>>, <<File(TextChain)>>},
        e \in {<<>>, <<Unreadable>>, <<File(TextRebased)>>}}

\* setDescriptionDir(dir)
SetDescriptionDir ==
    /\ descPhase = "idle"
    /\ loadResult = "none"
    /\ \E dir \in {DescDir, <<>>} : descriptionDir' = Str(dir)
    /\ UNCHANGED <<descriptions, currentLanguage>>
    /\ UNCHANGED <<iniVars, walkVars, dictVars>>
    /\ UNCHANGED <<tokVars, csfVars, xorVars, llfVars, mgrVars, moreVars>>

\* loadFromFile(filePath, language), called on the manager
LoadFromFile ==
    /\ descPhase = "idle"
    /\ Len(loadLog) < MaxLoads
    /\ \E filePath \in {PathZ, PathE} : \E language \in LanguageArguments :
           /\ descriptions' = LoadFile(descriptions, filePath, language).descriptions
           /\ loadLog' = Append(loadLog, [path |-> filePath,
                                           language |-> NormalizeLanguageCode(language)])
    /\ UNCHANGED <<currentLanguage, descriptionDir>>
    /\ UNCHANGED <<descFiles, loadResult>>
    /\ UNCHANGED <<iniVars, walkVars>>
    /\ UNCHANGED <<tokVars, csfVars, xorVars, llfVars, mgrVars, moreVars>>

\* loadFromDictionary(mainDictPath)
LoadFromDictionary ==
    /\ descPhase = "idle"
    /\ loadResult = "none"
    /\ \E r \in {LoadDictionary(MainDictPath)} :
           /\ descriptions' = r.descriptions
           /\ loadResult' = IF r.loadedAny THEN "true" ELSE "false"
    /\ UNCHANGED <<currentLanguage, descriptionDir>>
    /\ UNCHANGED <<descFiles, loadLog>>
    /\ UNCHANGED <<iniVars, walkVars>>
    /\ UNCHANGED <<tokVars, csfVars, xorVars, llfVars, mgrVars, moreVars>>

(***************************************************************************)
(* DictionaryService.downloadAndConfigure                                  *)
(*                                                                         *)
(* A file name and a file content are texts.  The mirrors serve the same   *)
(* repository; a request to a mirror fails when the mirror does not serve  *)
(* the file or the repository does not hold it.  The local writes and the  *)
(* configuration update succeed.  One call runs at a time; each await of   *)
(* the call ends one step.                                                 *)
(***************************************************************************)
\* DICT_FILENAME
DictFilename == <<"m">>

\* DOWNLOAD_BASE_URLS.length
MirrorCount == 4

IncludeHeader == <<"[", "#", "i", "n", "c", "l", "u", "d", "e", "]">>   \* '[#include]'

\* httpsGet(baseUrl + filename) of mirror i resolves
Served(i, filename) == filename \in DOMAIN repository /\ filename \notin network[i]

\* the scan of a downloaded content for [#include] sections: the queue after it
RECURSIVE ScanIncludes(_, _, _, _)
ScanIncludes(lines, inInclude, downloaded, queue) ==
    IF lines = <<>> THEN queue
    ELSE LET trimmed == TrimJs(Head(lines))
             eqIdx == IndexOf(trimmed, <<"=">>, 0)
             nextFile == IF eqIdx # -1
                         THEN TrimJs(Substring(trimmed, eqIdx + 1, Len(trimmed)))
                         ELSE trimmed
         IN  IF LowerCaseText(trimmed) = IncludeHeader
             THEN ScanIncludes(Tail(lines), TRUE, downloaded, queue)
             ELSE IF trimmed # <<>> /\ trimmed[1] = "["
             THEN ScanIncludes(Tail(lines), FALSE, downloaded, queue)
             ELSE IF /\ inInclude
                     /\ Truthy(trimmed)
                     /\ trimmed[1] # ";"
                     /\ Truthy(nextFile)
                     /\ nextFile \notin downloaded
             THEN ScanIncludes(Tail(lines), inInclude, downloaded, Append(queue, nextFile))
             ELSE ScanIncludes(Tail(lines), inInclude, downloaded, queue)

\* the scan of the main dictionary for its [Description] section: the entries
\* of the descriptionFiles map, in insertion order
ScanDescriptionFiles(content) == ReadLanguageFiles(SplitContent(content, <<>>), FALSE, <<>>)

\* path.join(dictDir, filename) and path.join(descriptionDir, filename), as
\* paths below the dictionary directory
DictPath(filename) == filename
DescriptionPath(filename) ==
    <<"d", "e", "s", "c", "r", "i", "p", "t", "i", "o", "n", "s", "/">> \o filename

\* an attempt that goes on with the visited set of the attempt before
StartAttemptKeepingVisited(i) ==
    /\ mirror' = i
    /\ downloadQueue' = <<DictFilename>>
    /\ UNCHANGED downloadedFiles
    /\ dlPhase' = "queue"

\* the start of the try block for mirror i: the queue holds the entry file,
\* nothing is downloaded
StartAttempt(i) ==
    /\ mirror' = i
    /\ downloadQueue' = <<DictFilename>>
    /\ downloadedFiles' = {}
    /\ dlPhase' = "queue"

\* downloadAndConfigure(), up to the first await
DownloadAndConfigure ==
    /\ dlPhase = "idle"
    /\ lastError' = Null
    /\ StartAttempt(1)
    /\ UNCHANGED <<repository, network, descriptionFiles, descIndex, dictDir,
                   schemaFilePath, requests>>
    /\ UNCHANGED <<waiter, legacyVars, tokVars, csfVars, xorVars, llfVars, mgrVars, descVars>>

\* the catch block of the mirror loop, then the next mirror or, after the last
\* one, throw lastError
MirrorFails(error) ==
    /\ lastError' = Str(error)
    /\ IF mirror < MirrorCount
       THEN StartAttempt(mirror + 1)
       ELSE /\ dlPhase' = "threw"
            /\ UNCHANGED <<mirror, downloadQueue, downloadedFiles>>

\* the queue loop: a file name that is already downloaded is dropped
QueueSkip ==
    /\ dlPhase = "queue"
    /\ downloadQueue # <<>>
    /\ Head(downloadQueue) \in downloadedFiles
    /\ downloadQueue' = Tail(downloadQueue)
    /\ UNCHANGED <<repository, network, dlPhase, mirror, downloadedFiles, descriptionFiles,
                   descIndex, dictDir, lastError, schemaFilePath, requests>>
    /\ UNCHANGED <<waiter, legacyVars, tokVars, csfVars, xorVars, llfVars, mgrVars, descVars>>

\* a download that does not record the file as downloaded
QueueDownloadForgetting ==
    /\ dlPhase = "queue"
    /\ downloadQueue # <<>>
    /\ Head(downloadQueue) \notin downloadedFiles
    /\ Served(mirror, Head(downloadQueue))
    /\ \E filename \in {Head(downloadQueue)} : \E content \in {repository[filename]} :
           /\ dictDir' = MapSet(dictDir, DictPath(filename), content)
           /\ downloadedFiles' = downloadedFiles
           /\ downloadQueue' = ScanIncludes(SplitContent(content, <<>>), FALSE,
                                            downloadedFiles, Tail(downloadQueue))
           /\ requests' = Append(requests, [mirror |-> mirror, filename |-> filename,
                                            kind |-> "dictionary", ok |-> TRUE])
    /\ UNCHANGED <<repository, network, dlPhase, mirror, descriptionFiles, descIndex,
                   lastError, schemaFilePath>>
    /\ UNCHANGED <<waiter, legacyVars, tokVars, csfVars, xorVars, llfVars, mgrVars, descVars>>

\* the queue loop: the file is downloaded, written and scanned for includes
QueueDownload ==
    /\ dlPhase = "queue"
    /\ downloadQueue # <<>>
    /\ Head(downloadQueue) \notin downloadedFiles
    /\ Served(mirror, Head(downloadQueue))
    /\ \E filename \in {Head(downloadQueue)} : \E content \in {repository[filename]} :
           /\ dictDir' = MapSet(dictDir, DictPath(filename), content)
           /\ downloadedFiles' = downloadedFiles \cup {filename}
           /\ downloadQueue' = ScanIncludes(SplitContent(content, <<>>), FALSE,
                                            downloadedFiles \cup {filename},
                                            Tail(downloadQueue))
           /\ requests' = Append(requests, [mirror |-> mirror, filename |-> filename,
                                            kind |-> "dictionary", ok |-> TRUE])
    /\ UNCHANGED <<repository, network, dlPhase, mirror, descriptionFiles, descIndex,
                   lastError, schemaFilePath>>
    /\ UNCHANGED <<waiter, legacyVars, tokVars, csfVars, xorVars, llfVars, mgrVars, descVars>>

\* the queue loop: httpsGet rejects, the mirror's attempt ends in the catch
QueueDownloadFails ==
    /\ dlPhase = "queue"
    /\ downloadQueue # <<>>
    /\ Head(downloadQueue) \notin downloadedFiles
    /\ ~Served(mirror, Head(downloadQueue))
    /\ requests' = Append(requests, [mirror |-> mirror, filename |-> Head(downloadQueue),
                                     kind |-> "dictionary", ok |-> FALSE])
    /\ MirrorFails([mirror |-> mirror, filename |-> Head(downloadQueue)])
    /\ UNCHANGED <<repository, network, descriptionFiles, descIndex, dictDir, schemaFilePath>>
    /\ UNCHANGED <<waiter, legacyVars, tokVars, csfVars, xorVars, llfVars, mgrVars, descVars>>

\* the queue is empty: the main dictionary is read back and scanned for its
\* [Description] section
ReadDescriptionFiles ==
    /\ dlPhase = "queue"
    /\ downloadQueue = <<>>
    /\ descriptionFiles' = ScanDescriptionFiles(dictDir[DictPath(DictFilename)])
    /\ descIndex' = 1
    /\ dlPhase' = "descriptions"
    /\ UNCHANGED <<repository, network, mirror, downloadQueue, downloadedFiles, dictDir,
                   lastError, schemaFilePath, requests>>
    /\ UNCHANGED <<waiter, legacyVars, tokVars, csfVars, xorVars, llfVars, mgrVars, descVars>>

\* the loop over descriptionFiles: one file is downloaded and written, or the
\* inner catch logs the failure; the loop goes on either way
DescriptionDownload ==
    /\ dlPhase = "descriptions"
    /\ descIndex <= Len(descriptionFiles)
    /\ \E filename \in {descriptionFiles[descIndex].path} :
           /\ dictDir' = IF Served(mirror, filename)
                         THEN MapSet(dictDir, DescriptionPath(filename), repository[filename])
                         ELSE dictDir
           /\ requests' = Append(requests, [mirror |-> mirror, filename |-> filename,
                                            kind |-> "description",
                                            ok |-> Served(mirror, filename)])
    /\ descIndex' = descIndex + 1
    /\ UNCHANGED <<repository, network, dlPhase, mirror, downloadQueue, downloadedFiles,
                   descriptionFiles, lastError, schemaFilePath>>
    /\ UNCHANGED <<waiter, legacyVars, tokVars, csfVars, xorVars, llfVars, mgrVars, descVars>>

\* the mirror's attempt reached its end: the setting is updated and the path
\* of the main dictionary returned
Configure ==
    /\ dlPhase = "descriptions"
    /\ descIndex > Len(descriptionFiles)
    /\ schemaFilePath' = Str(DictPath(DictFilename))
    /\ dlPhase' = "returned"
    /\ UNCHANGED <<repository, network, mirror, downloadQueue, downloadedFiles,
                   descriptionFiles, descIndex, dictDir, lastError, requests>>
    /\ UNCHANGED <<waiter, legacyVars, tokVars, csfVars, xorVars, llfVars, mgrVars, descVars>>

\* ---- the repositories and the mirrors ----
FileA == <<"a">>
FileB == <<"b">>
FileZh == <<"z">>
FileEn == <<"e">>

\* the lines of an [#include] section that names the files of names: odd
\* entries as number=name, even entries as the bare name, with a comment
RECURSIVE IncludeLines(_, _)
IncludeLines(names, k) ==
    IF k > Len(names) THEN <<>>
    ELSE <<(IF k % 2 = 1 THEN <<"1", " ", "=", " ">> \o names[k]
            ELSE <<" ">> \o names[k] \o <<CR>>)>>
         \o IncludeLines(names, k + 1)

\* a dictionary file that includes names and lists the description files descs
DictionaryText(header, names, descs) ==
    JoinIni(<<header>> \o IncludeLines(names, 1)
            \o << <<";", "b">>, <<"[", "X", "]">>, <<"k", "=", "b">>, <<"b">> >>
            \o (IF descs = <<>> THEN <<>> ELSE <<DescriptionHeader>> \o descs))

MainIncludes == {<<>>, <<FileA>>, <<FileA, FileB, FileA>>}
AIncludes == {<<>>, <<FileB, DictFilename>>, <<FileA>>}
BIncludes == {<<>>, <<FileA>>}
DescriptionLists ==
    {<<>>, << <<"z", "h", "=", "z">>, <<"e", "n", " ", "=", " ", "e">> >>}

Repositories ==
    {[f \in {DictFilename, FileA, FileB, FileZh, FileEn} |->
         IF f = DictFilename THEN DictionaryText(IncludeHeader, im, ds)
         ELSE IF f = FileA
         THEN DictionaryText(<<"[", "#", "I", "n", "c", "l", "u", "d", "e", "]">>, ia, <<>>)
         ELSE IF f = FileB THEN DictionaryText(IncludeHeader, ib, <<>>)
         ELSE <<"[", "A", "]">>] :
        im \in MainIncludes, ia \in AIncludes, ib \in BIncludes, ds \in DescriptionLists}

\* per mirror, the files it fails to serve
Outages == {{}, {DictFilename}, {FileB}, {FileZh}}
Networks == [1..MirrorCount -> Outages]

DownloadIdle ==
    /\ repository = EmptyMap
    /\ network = EmptyMap
    /\ dlPhase = "off"
    /\ mirror = 0
    /\ downloadQueue = <<>>
    /\ downloadedFiles = {}
    /\ descriptionFiles = <<>>
    /\ descIndex = 0
    /\ dictDir = EmptyMap
    /\ lastError = Null
    /\ schemaFilePath = Null
    /\ requests = <<>>

(***************************************************************************)
(* Specifications                                                          *)
(***************************************************************************)
CsfIdle ==
    /\ archive = <<>>
    /\ buffer = <<>>
    /\ csfPhase = "off"
    /\ csfOutcome = "none"
    /\ csfWrites = <<>>
    /\ mergedLabels = EmptyMap
    /\ fileLabels = EmptyMap

XorIdle ==
    /\ codeUnit = 0
    /\ decodedUnit = -1

LlfIdle ==
    /\ llfContent = <<>>
    /\ llfPhase = "off"
    /\ llfWrites = <<>>

MgrIdle ==
    /\ disk = EmptyMap
    /\ scans = <<>>
    /\ reloads = <<>>
    /\ initialized = FALSE
    /\ events = 0
    /\ lastLoad = NoLoad
    /\ latest = EmptyMap
    /\ removed = FALSE
    /\ threw = FALSE
    /\ settled = "none"

IniIdle ==
    /\ iniContent = <<>>
    /\ iniPhase = "off"
    /\ parsed = EmptyMap

DictIdle ==
    /\ descFiles = EmptyMap
    /\ loadResult = "none"
    /\ loadLog = <<>>

(***************************************************************************)
(* The earlier MultilineIniParser and DescriptionManager                   *)
(*                                                                         *)
(* The earlier parser returns section -> key -> value, the earlier manager *)
(* keeps language -> section -> key -> value under the language code as it *)
(* was given.  The manager is a second object: it is given the calls the   *)
(* DescriptionManager above has been given, its language codes in          *)
(* normalized form, and runs each of them without await.                   *)
(***************************************************************************)
\* saveKeyValue(result, section, key, value)
LegacySaveKeyValue(result, section, key, value) ==
    IF ~Truthy(section) \/ ~Truthy(key) THEN result
    ELSE LET r == IF section \in DOMAIN result THEN result
                  ELSE MapSet(result, section, EmptyMap)
         IN  [r EXCEPT ![section] = MapSet(@, key, value)]

\* one iteration of the loop of parse
LegacyLine(line, st) ==
    LET trimmedLine == TrimJs(line)
        sectionMatch == SectionMatch(trimmedLine)
        equalsIndex == IndexOf(line, <<"=">>, 0)
        endIndex == IndexOf(line, Q3, 0)
        saved == IF Truthy(st.currentKey) /\ Truthy(st.currentValue)
                 THEN LegacySaveKeyValue(st.result, st.currentSection, st.currentKey,
                                         st.currentValue)
                 ELSE st.result
        key == TrimJs(Substring(line, 0, equalsIndex))
        value == TrimJs(Substring(line, equalsIndex + 1, Len(line)))
        opened == Substring(value, 3, Len(value))
        closedAt == IndexOf(opened, Q3, 0)
    IN  IF st.inMultilineString
        THEN IF endIndex # -1
             THEN [st EXCEPT !.result =
                                 LegacySaveKeyValue(st.result, st.currentSection,
                                     st.currentKey,
                                     st.currentValue \o <<LF>> \o Substring(line, 0, endIndex)),
                             !.inMultilineString = FALSE,
                             !.currentKey = <<>>,
                             !.currentValue = <<>>]
             ELSE [st EXCEPT !.currentValue = st.currentValue \o <<LF>> \o line]
        ELSE IF trimmedLine = <<>> THEN st
        ELSE IF trimmedLine[1] = ";" THEN st
        ELSE IF sectionMatch.ok
        THEN [st EXCEPT !.currentSection = sectionMatch.name,
                        !.currentKey = <<>>,
                        !.currentValue = <<>>,
                        !.result = IF sectionMatch.name \notin DOMAIN saved
                                   THEN MapSet(saved, sectionMatch.name, EmptyMap)
                                   ELSE saved]
        ELSE IF equalsIndex = -1 THEN st
        ELSE IF Len(value) >= 3 /\ SubSeq(value, 1, 3) = Q3
        THEN IF closedAt # -1
             THEN [st EXCEPT !.result = LegacySaveKeyValue(saved, st.currentSection, key,
                                                           Substring(opened, 0, closedAt)),
                             !.inMultilineString = FALSE,
                             !.currentKey = <<>>,
                             !.currentValue = <<>>]
             ELSE [st EXCEPT !.result = saved,
                             !.inMultilineString = TRUE,
                             !.currentKey = key,
                             !.currentValue = opened]
        ELSE [st EXCEPT !.result = LegacySaveKeyValue(saved, st.currentSection, key, value),
                        !.currentKey = <<>>,
                        !.currentValue = <<>>]

RECURSIVE LegacyLoop(_, _)
LegacyLoop(lines, st) ==
    IF lines = <<>> THEN st ELSE LegacyLoop(Tail(lines), LegacyLine(Head(lines), st))

\* MultilineIniParser.parse(content) of the earlier parser
LegacyParse(content) ==
    LET st == LegacyLoop(SplitContent(content, <<>>), IniStart)
    IN  IF Truthy(st.currentKey) /\ Truthy(st.currentValue)
        THEN LegacySaveKeyValue(st.result, st.currentSection, st.currentKey, st.currentValue)
        ELSE st.result

\* sectionKey.match(/^([^:]+):\[([^\]]+)\]$/): group 1 and group 2
LegacyInheritance(sectionKey) ==
    LET n == RunFrom(sectionKey, 0, {":"})
        m == RunFrom(sectionKey, n + 2, {"]"})
    IN  IF /\ n >= 1
           /\ Len(sectionKey) >= n + 2
           /\ sectionKey[n + 1] = ":"
           /\ sectionKey[n + 2] = "["
           /\ m >= 1
           /\ Len(sectionKey) = n + 2 + m + 1
           /\ sectionKey[n + 2 + m + 1] = "]"
        THEN [ok |-> TRUE, child |-> Substring(sectionKey, 0, n),
              parent |-> Substring(sectionKey, n + 2, n + 2 + m)]
        ELSE [ok |-> FALSE]

\* getDescriptionForLanguage(sectionName, keyName, language) on the map descs;
\* of several section keys that name sectionName as their child, the one the
\* Map lists first with a description in its parent decides
RECURSIVE LegacyGetDescriptionForLanguage(_, _, _, _)
LegacyGetDescriptionForLanguage(descs, sectionName, keyName, language) ==
    IF language \notin DOMAIN descs THEN Null
    ELSE LET langDescriptions == descs[language]
             parents == {LegacyInheritance(sectionKey).parent :
                            sectionKey \in {s \in DOMAIN langDescriptions :
                                               /\ LegacyInheritance(s).ok
                                               /\ LegacyInheritance(s).child = sectionName}}
             found == {LegacyGetDescriptionForLanguage(descs, p, keyName, language) :
                          p \in parents} \ {Null}
         IN  IF /\ sectionName \in DOMAIN langDescriptions
                /\ keyName \in DOMAIN langDescriptions[sectionName]
                /\ langDescriptions[sectionName][keyName] # <<>>
             THEN Str(langDescriptions[sectionName][keyName])
             ELSE IF found # {} THEN CHOOSE d \in found : TRUE
             ELSE Null

\* getDescription(sectionName, keyName) of the earlier manager
LegacyDescription(descs, language, sectionName, keyName) ==
    LET desc == LegacyGetDescriptionForLanguage(descs, sectionName, keyName, language)
    IN  IF desc # Null THEN desc
        ELSE IF language # EnUS
        THEN LegacyGetDescriptionForLanguage(descs, sectionName, keyName, EnUS)
        ELSE Null

\* loadFromFile(filePath, language) of the earlier manager, with the
\* arguments of the next call the other manager has been given
LegacyLoadFromFile ==
    /\ Len(legacyLog) < Len(loadLog)
    /\ legacyQuery = Null
    /\ \E load \in {loadLog[Len(legacyLog) + 1]} :
           /\ legacyDescriptions' =
                  IF Readable(load.path)
                  THEN MapSet(legacyDescriptions, load.language,
                              LegacyParse(descFiles[load.path].text))
                  ELSE legacyDescriptions
           /\ legacyLog' = Append(legacyLog, load)
    /\ UNCHANGED <<legacyLanguage, legacyQuery, legacyResult>>
    /\ UNCHANGED <<waiter, dlVars>>
    /\ UNCHANGED <<tokVars, csfVars, xorVars, llfVars, mgrVars, descVars>>

\* setLanguage(language) of the earlier manager, with the language the other
\* manager has been set to
LegacySetLanguage ==
    /\ legacyLanguage # currentLanguage
    /\ legacyQuery = Null
    /\ legacyLanguage' = currentLanguage
    /\ UNCHANGED <<legacyDescriptions, legacyLog, legacyQuery, legacyResult>>
    /\ UNCHANGED <<waiter, dlVars>>
    /\ UNCHANGED <<tokVars, csfVars, xorVars, llfVars, mgrVars, descVars>>

\* getDescription(sectionName, keyName) of the earlier manager, with the
\* arguments of the call the other manager has answered
LegacyGetDescription ==
    /\ descPhase = "done"
    /\ legacyQuery = Null
    /\ legacyQuery' = Str(query)
    /\ legacyResult' = LegacyDescription(legacyDescriptions, legacyLanguage,
                                         query.section, query.key)
    /\ UNCHANGED <<legacyDescriptions, legacyLanguage, legacyLog>>
    /\ UNCHANGED <<waiter, dlVars>>
    /\ UNCHANGED <<tokVars, csfVars, xorVars, llfVars, mgrVars, descVars>>

\* the description texts both managers load: a header, plain, padded, with a
\* base or in the form [A]:[B], and what follows it
IniHeaderPadded == <<"[", " ", "A", " ", "]">>                    \* [ A ]
LegacyHeaders == {IniHeaderA, IniHeaderPadded, IniHeaderNested, IniHeaderDialect,
                  <<" ", "[", "A", "]", " ">>}                    \* " [A] "
LegacyBodies ==
    { <<IniKeyV>>, <<IniKeyW>>, <<IniKeyEmpty>>,
      <<IniKeyOpen, IniClose>>,
      <<IniKeyV, IniHeaderB, IniKeyW>>,
      <<IniHeaderB, IniKeyV, IniHeaderA>> }
LegacyTexts == {JoinIni(<<h>> \o b) : h \in LegacyHeaders, b \in LegacyBodies}

LegacyIdle ==
    /\ legacyDescriptions = EmptyMap
    /\ legacyLanguage = EnUS
    /\ legacyLog = <<>>
    /\ legacyQuery = Null
    /\ legacyResult = Null

MoreIdle == waiter = "none" /\ DownloadIdle /\ LegacyIdle

DescIdle ==
    /\ IniIdle
    /\ DictIdle
    /\ DescConstructed
    /\ NoQuery
    /\ descPhase = "off"

Next ==
    \/ ProvideDocumentSemanticTokens
    \/ ProvideDocumentRangeSemanticTokens
    \/ LoopParseLine
    \/ LoopBreak
    \/ LoopExit
    \/ Cancel

Init == TokInit /\ CsfIdle /\ XorIdle /\ LlfIdle /\ MgrIdle /\ DescIdle /\ MoreIdle
Spec == Init /\ [][Next]_vars

\* decoding of well-formed archives
InitCsf ==
    /\ MoreIdle
    /\ TokIdle
    /\ DescIdle
    /\ XorIdle
    /\ LlfIdle
    /\ MgrIdle
    /\ archive \in WellFormedArchives
    /\ buffer = EncodeArchive(archive)
    /\ CsfInitState
NextCsf == ParseCsfCall
SpecCsf == InitCsf /\ [][NextCsf]_vars

\* decoding of archives with bad tags, cut short at any length
InitCsfDamaged ==
    /\ MoreIdle
    /\ TokIdle
    /\ DescIdle
    /\ XorIdle
    /\ LlfIdle
    /\ MgrIdle
    /\ archive \in DamagedArchives
    /\ \E n \in 0..Len(EncodeArchive(archive)) : buffer = SubSeq(EncodeArchive(archive), 1, n)
    /\ CsfInitState
NextCsfDamaged == ParseCsfCall
SpecCsfDamaged == InitCsfDamaged /\ [][NextCsfDamaged]_vars

\* the XOR step on every 16-bit code unit
InitXor ==
    /\ MoreIdle
    /\ TokIdle
    /\ DescIdle
    /\ CsfIdle
    /\ LlfIdle
    /\ MgrIdle
    /\ codeUnit \in 0..XorMask
    /\ decodedUnit = -1
NextXor == DecodeUnit
SpecXor == InitXor /\ [][NextXor]_vars

\* decoding of text archives
InitLlf ==
    /\ MoreIdle
    /\ TokIdle
    /\ DescIdle
    /\ CsfIdle
    /\ XorIdle
    /\ MgrIdle
    /\ llfContent \in LlfTexts
    /\ llfPhase = "ready"
    /\ llfWrites = <<>>
NextLlf == ParseLlfCall
SpecLlf == InitLlf /\ [][NextLlf]_vars

\* the manager after construction, over every workspace of the contents
InitMgr ==
    /\ MoreIdle
    /\ TokIdle
    /\ DescIdle
    /\ XorIdle
    /\ LlfIdle
    /\ archive = <<>>
    /\ buffer = <<>>
    /\ csfPhase = "off"
    /\ csfOutcome = "none"
    /\ csfWrites = <<>>
    /\ mergedLabels = EmptyMap
    /\ fileLabels = EmptyMap
    /\ disk \in {d \in [Range(CsfPaths) \cup Range(LlfPaths) -> [exists : BOOLEAN, bytes : AllContents \cup {<<>>}]] :
                    \A p \in DOMAIN d : d[p] = Absent \/ (d[p].exists /\ d[p].bytes \in ContentsOf(p))}
    /\ scans = <<NewScan("init", FALSE)>>
    /\ reloads = <<>>
    /\ initialized = FALSE
    /\ events = 0
    /\ lastLoad = NoLoad
    /\ latest = EmptyMap
    /\ removed = FALSE
    /\ threw = FALSE
    /\ settled = "none"
NextMgr ==
    \/ FileCreate
    \/ FileChange
    \/ FileDelete
    \/ ReloadRead
    \/ ReloadParse
    \/ ScanFindCsf
    \/ ScanFindLlf
    \/ ScanRead
    \/ ScanParse
SpecMgr == InitMgr /\ [][NextMgr]_vars

\* the manager while files are created and rewritten but none is deleted
NextLoads ==
    \/ FileCreate
    \/ FileChange
    \/ ReloadRead
    \/ ReloadParse
    \/ ScanFindCsf
    \/ ScanFindLlf
    \/ ScanRead
    \/ ScanParse
SpecLoads == InitMgr /\ [][NextLoads]_vars

\* the manager from construction on, with callers of waitForInitialization,
\* while files are deleted
NextInit ==
    \/ FileDelete
    \/ ScanFindCsf
    \/ ScanFindLlf
    \/ ScanRead
    \/ ScanParse
    \/ WaitForInitialization
    \/ WaitResolves
SpecInit == InitMgr /\ [][NextInit]_vars

\* the description parser on every text of the lines
InitIni ==
    /\ MoreIdle
    /\ TokIdle
    /\ CsfIdle
    /\ XorIdle
    /\ LlfIdle
    /\ MgrIdle
    /\ iniContent \in IniTexts
    /\ iniPhase = "ready"
    /\ parsed = EmptyMap
    /\ DictIdle
    /\ DescConstructed
    /\ NoQuery
    /\ descPhase = "off"
NextIni == ParseIniCall
SpecIni == InitIni /\ [][NextIni]_vars

\* lookups in a manager that has loaded descriptions
InitDesc ==
    /\ MoreIdle
    /\ TokIdle
    /\ CsfIdle
    /\ XorIdle
    /\ LlfIdle
    /\ MgrIdle
    /\ IniIdle
    /\ DictIdle
    /\ descriptions \in LoadedDescriptions
    /\ currentLanguage = EnUS
    /\ descriptionDir = Null
    /\ NoQuery
    /\ descPhase = "idle"
NextDesc ==
    \/ SetLanguage
    \/ GetDescription
    \/ WalkNoLanguage
    \/ WalkIterate
    \/ WalkEnds
    \/ Fallback
    \/ ReturnUndefined
SpecDesc == InitDesc /\ [][NextDesc]_vars

\* loadFromDictionary on every file system, in a manager that has loaded
\* nothing or has loaded 'en-US' before
InitDict ==
    /\ MoreIdle
    /\ TokIdle
    /\ CsfIdle
    /\ XorIdle
    /\ LlfIdle
    /\ MgrIdle
    /\ IniIdle
    /\ descFiles \in FileSystems
    /\ loadResult = "none"
    /\ loadLog = <<>>
    /\ descriptions \in {EmptyMap, MapSet(EmptyMap, EnUS, ParseIni(TextChain))}
    /\ currentLanguage = EnUS
    /\ descriptionDir = Null
    /\ NoQuery
    /\ descPhase = "idle"
NextDict ==
    \/ SetDescriptionDir
    \/ LoadFromDictionary
SpecDict == InitDict /\ [][NextDict]_vars

\* description files loaded one after the other, then a lookup
InitReload ==
    /\ MoreIdle
    /\ TokIdle
    /\ CsfIdle
    /\ XorIdle
    /\ LlfIdle
    /\ MgrIdle
    /\ IniIdle
    /\ descFiles \in {fs \in FileSystems : MainDictPath \notin DOMAIN fs}
    /\ loadResult = "none"
    /\ loadLog = <<>>
    /\ DescConstructed
    /\ NoQuery
    /\ descPhase = "idle"
NextReload ==
    \/ LoadFromFile
    \/ SetLanguage
    \/ GetDescription
    \/ WalkNoLanguage
    \/ WalkIterate
    \/ WalkEnds
    \/ Fallback
    \/ ReturnUndefined
SpecReload == InitReload /\ [][NextReload]_vars

\* the description parser on texts with a multi-line value
InitBlock ==
    /\ MoreIdle
    /\ TokIdle
    /\ CsfIdle
    /\ XorIdle
    /\ LlfIdle
    /\ MgrIdle
    /\ iniContent \in BlockTexts
    /\ iniPhase = "ready"
    /\ parsed = EmptyMap
    /\ DictIdle
    /\ DescConstructed
    /\ NoQuery
    /\ descPhase = "off"
NextBlock == ParseIniCall
SpecBlock == InitBlock /\ [][NextBlock]_vars

\* the two managers on the same file system with one description file, the
\* earlier one following the calls made on the other
InitLegacy ==
    /\ waiter = "none"
    /\ DownloadIdle
    /\ LegacyIdle
    /\ TokIdle
    /\ CsfIdle
    /\ XorIdle
    /\ LlfIdle
    /\ MgrIdle
    /\ IniIdle
    /\ descFiles \in {MapSet(MapSet(EmptyMap, DescDir, Unreadable), PathZ, File(t)) :
                         t \in LegacyTexts}
    /\ loadResult = "none"
    /\ loadLog = <<>>
    /\ DescConstructed
    /\ NoQuery
    /\ descPhase = "idle"
NextLegacy ==
    \/ LoadFromFile
    \/ SetLanguage
    \/ GetDescription
    \/ WalkNoLanguage
    \/ WalkIterate
    \/ WalkEnds
    \/ Fallback
    \/ ReturnUndefined
    \/ LegacyLoadFromFile
    \/ LegacySetLanguage
    \/ LegacyGetDescription
SpecLegacy == InitLegacy /\ [][NextLegacy]_vars

\* one call of downloadAndConfigure over every repository and network
InitDownload ==
    /\ TokIdle
    /\ CsfIdle
    /\ XorIdle
    /\ LlfIdle
    /\ MgrIdle
    /\ DescIdle
    /\ waiter = "none"
    /\ LegacyIdle
    /\ repository \in Repositories
    /\ network \in Networks
    /\ dlPhase = "idle"
    /\ mirror = 0
    /\ downloadQueue = <<>>
    /\ downloadedFiles = {}
    /\ descriptionFiles = <<>>
    /\ descIndex = 0
    /\ dictDir = EmptyMap
    /\ lastError = Null
    /\ schemaFilePath = Null
    /\ requests = <<>>
NextDownload ==
    \/ DownloadAndConfigure
    \/ QueueSkip
    \/ QueueDownload
    \/ QueueDownloadFails
    \/ ReadDescriptionFiles
    \/ DescriptionDownload
    \/ Configure
SpecDownload == InitDownload /\ [][NextDownload]_vars

\* the tokenizer on documents of one line
InitLine ==
    /\ MoreIdle
    /\ document \in {<<t>> : t \in LineTexts}
    /\ call = "idle"
    /\ kind = "none"
    /\ rangeStart = 0
    /\ rangeEnd = 0
    /\ lineIdx = 0
    /\ state = FALSE
    /\ builder = <<>>
    /\ cancelled = FALSE
    /\ passed = <<>>
    /\ fullResults = <<>>
    /\ CsfIdle
    /\ XorIdle
    /\ LlfIdle
    /\ MgrIdle
    /\ DescIdle
NextLine ==
    \/ ProvideDocumentSemanticTokens
    \/ ProvideDocumentRangeSemanticTokens
    \/ LoopParseLine
    \/ LoopBreak
    \/ LoopExit
    \/ Cancel
SpecLine == InitLine /\ [][NextLine]_vars

\* one request after another for the same document
RepeatLines ==
    { <<"a", "=", Q, Q, Q>>,                          \* a="""
      <<"b", ";", Q, Q, Q>>,                          \* b;"""
      <<"a", "=", "b", ";", "c">> }                   \* a=b;c
InitRepeat ==
    /\ MoreIdle
    /\ document \in UNION {[1..n -> RepeatLines] : n \in 1..MaxDocLines}
    /\ call = "idle"
    /\ kind = "none"
    /\ rangeStart = 0
    /\ rangeEnd = 0
    /\ lineIdx = 0
    /\ state = FALSE
    /\ builder = <<>>
    /\ cancelled = FALSE
    /\ passed = <<>>
    /\ fullResults = <<>>
    /\ CsfIdle
    /\ XorIdle
    /\ LlfIdle
    /\ MgrIdle
    /\ DescIdle
NextRepeat ==
    \/ ProvideDocumentSemanticTokens
    \/ ProvideDocumentRangeSemanticTokens
    \/ LoopParseLine
    \/ LoopBreak
    \/ LoopExit
    \/ Cancel
    \/ NextRequest
SpecRepeat == InitRepeat /\ [][NextRepeat]_vars





(***************************************************************************)
(* Claims about the tokenizer                                              *)
(***************************************************************************)
\* the tokens of seq whose line lies in a..b
TokensOfLines(seq, a, b) == SelectSeq(seq, LAMBDA t : t.line >= a /\ t.line <= b)

\* the columns a token covers
Columns(t) == t.start..(t.start + t.length - 1)

\* the first line of the running or finished call
FirstLine == IF kind = "full" THEN 0 ELSE rangeStart

\* the pushes the current call makes when it is never cancelled
Uncancelled ==
    IF kind = "full" THEN TokenizeFull(document, LineCount).tokens
    ELSE TokenizeRange(document, rangeStart, rangeEnd + 1).tokens

\* C1: a ranged call that ran to the end of its range has pushed exactly the
\* tokens the full tokenization pushes for the lines of the range, in order.
C1_RangeEqualsFull ==
    (call = "done" /\ kind = "range" /\ lineIdx = rangeEnd + 1)
        => builder = TokensOfLines(TokenizeFull(document, LineCount).tokens,
                                   rangeStart, rangeEnd)

\* the triple-quote markers of a line, not counting those inside a recognized
\* comment (a comment is recognized only outside a multi-line string)
MarkerCount(lineText, inMultilineString) ==
    LET commentIndex == IF ~inMultilineString THEN IndexOf(lineText, <<";">>, 0) ELSE -1
        text == IF commentIndex # -1 THEN Substring(lineText, 0, commentIndex) ELSE lineText
    IN  Len(TripleQuoteMatches(text, 0))

\* C2: parseLine leaves inMultilineString as it was when the line holds an even
\* number of triple-quote markers and flips it when the number is odd, whether
\* the line starts outside or inside a multi-line string.
C2_TripleQuoteParity ==
    [][(call \in {"full", "range"} /\ lineIdx' = lineIdx + 1)
          => (state' = IF MarkerCount(document[lineIdx + 1], state) % 2 = 0
                       THEN state ELSE ~state)]_vars

\* C3: the pushes of one call are in non-decreasing line order and, within a
\* line, in non-decreasing start-column order.
C3_PushesInOrder ==
    \A k \in 1..(Len(builder) - 1) :
        \/ builder[k].line < builder[k + 1].line
        \/ /\ builder[k].line = builder[k + 1].line
           /\ builder[k].start <= builder[k + 1].start

\* C4: no two tokens of one line cover a common column.
C4_NoOverlap ==
    \A j, k \in 1..Len(builder) :
        (j < k /\ builder[j].line = builder[k].line)
            => Columns(builder[j]) \cap Columns(builder[k]) = {}

\* the columns of the commas of a key/value line that lie outside its
\* double-quoted substrings: a comma after an even number of quotes
TopLevelCommas(lineText) ==
    LET eq == IndexOf(lineText, <<"=">>, 0)
    IN  {p \in (eq + 1)..(Len(lineText) - 1) :
            /\ lineText[p + 1] = ","
            /\ Cardinality({q \in (eq + 1)..(p - 1) : lineText[q + 1] = Q}) % 2 = 0}

ScenarioLine ==
    <<"K", "e", "y", ".", "S", "u", "b", "=", "1", ",", Q, "a", ",", "b", Q, ",", "2">>

\* C5: for the first line Key.Sub=1,"a,b",2 the ValueComma tokens are exactly
\* those of the commas outside the quoted substring (two of them), with
\* KeyPart1 on Key, KeyPart2 on Sub and one ValueString over "a,b".
C5_CommasOutsideQuotes ==
    (call \in {"full", "range", "done"} /\ FirstLine = 0 /\ lineIdx >= 1
        /\ document[1] = ScenarioLine)
        => LET toks == TokensOfLines(builder, 0, 0)
               commas == {k \in 1..Len(toks) : toks[k].type = "valueComma"}
           IN  /\ {toks[k].start : k \in commas} = TopLevelCommas(document[1])
               /\ Cardinality(commas) = 2
               /\ \E k \in 1..Len(toks) : toks[k] = Token(0, 0, 3, "keyPart1")
               /\ \E k \in 1..Len(toks) : toks[k] = Token(0, 4, 3, "keyPart2")
               /\ \E k \in 1..Len(toks) : toks[k] = Token(0, 10, 5, "valueString")

\* C6: a call returns exactly the tokens of the lines it processed, which are
\* the tokens the uncancelled call pushes for the lines before the one at
\* which cancellation was observed; the loop is left early only on
\* cancellation, and no line at or after that one contributes a token.
C6_CancelReturnsPrefix ==
    call = "done"
        => /\ builder = TokensOfLines(Uncancelled, FirstLine, lineIdx - 1)
           /\ builder = SubSeq(Uncancelled, 1, Len(builder))
           /\ \A k \in 1..Len(builder) : builder[k].line < lineIdx
           /\ lineIdx <= LastLine => cancelled

\* a call cancelled after at least one line, with tokens to return and lines left
C6_Witness ==
    /\ call = "done"
    /\ cancelled
    /\ lineIdx > FirstLine
    /\ lineIdx <= LastLine
    /\ builder # <<>>
    /\ Len(builder) < Len(Uncancelled)


\* the state parseLine hands from line to line, before line n (0-based), when
\* threaded from {inMultilineString: false} at line 0
ThreadedState(doc, n) == TokenizeFull(doc, n).inMultilineString

\* C28: for every line n up to the start of a ranged call,
\* getParseStateAtLine(document, n) is the state obtained by threading
\* parseLine over lines 0..n-1 from {inMultilineString: false}.
C28_ReplayEqualsThreading ==
    kind = "range"
        => \A n \in 0..rangeStart :
               GetParseStateAtLine(document, n) = ThreadedState(document, n)

\* C29: on a line that begins inside a multi-line string, the full scan pushes
\* no comment token and leaves the string at a closing marker even when a ';'
\* precedes it, and the replay a ranged call makes with getParseStateAtLine
\* leaves the string at such a marker too.
C29_NoCommentInsideString ==
    /\ kind = "full"
          => \A n \in 1..lineIdx :
                 ThreadedState(document, n - 1)
                     => LET r == ParseLine(document[n], n - 1, TRUE)
                        IN  /\ \A k \in 1..Len(r.tokens) : r.tokens[k].type # "comment"
                            /\ Includes(document[n], Q3) => ~r.inMultilineString
    /\ kind = "range"
          => \A n \in 1..rangeStart :
                 GetParseStateAtLine(document, n - 1)
                     => (Includes(document[n], Q3) => ~ReplayLine(document[n], TRUE))

\* the tokens the step from this state to the next one pushed
Pushed(before, after) == SubSeq(after, Len(before) + 1, Len(after))

\* the columns covered by the tokens of seq
Covered(seq) == UNION {Columns(seq[k]) : k \in 1..Len(seq)}

\* C30: a line processed in multi-line mode that holds a triple-quote marker
\* gets only ValueMultilineString tokens, covering the columns from 0 through
\* the end of the first marker and nothing after it, and ends the string; a
\* line without a marker gets one ValueMultilineString token over the whole
\* line and the string stays open.
C30_MultilineLineTokens ==
    [][(call \in {"full", "range"} /\ lineIdx' = lineIdx + 1 /\ state)
          => LET lineText == document[lineIdx + 1]
                 endIndex == IndexOf(lineText, Q3, 0)
                 new == Pushed(builder, builder')
             IN  IF endIndex # -1
                 THEN /\ \A k \in 1..Len(new) :
                            /\ new[k].type = "valueMultilineString"
                            /\ new[k].line = lineIdx
                      /\ Covered(new) = 0..(endIndex + 2)
                      /\ ~state'
                 ELSE /\ new = <<Token(lineIdx, 0, Len(lineText), "valueMultilineString")>>
                      /\ state']_vars

\* the second line """a""" was processed inside the string opened by a=""":
\* one token over the first marker, nothing for a""" after it
C30_Witness ==
    /\ kind = "full"
    /\ lineIdx = 2
    /\ document[1] = <<"a", "=", Q, Q, Q>>
    /\ document[2] = <<Q, Q, Q, "a", Q, Q, Q>>
    /\ builder[Len(builder)] = Token(1, 0, 3, "valueMultilineString")
    /\ ~state


(***************************************************************************)
(* Claims about the binary decoder                                         *)
(***************************************************************************)
\* the LabelEntry the format assigns to one pair of a record
EntryOf(name, p) ==
    [label |-> name, value |-> p.value,
     extraValue |-> IF p.tag = "WRTS" THEN <<p.extra>> ELSE <<>>]

\* one entry per pair, in file order
ExpectedEntries(a) ==
    Concat([k \in 1..Len(a) |->
               [j \in 1..Len(a[k].pairs) |-> EntryOf(a[k].name, a[k].pairs[j])]])

\* the index in which, for each lower-cased label, the last entry wins
LastWins(entries) ==
    LET keys == {ToLowerCase(entries[k].label) : k \in 1..Len(entries)}
        last(key) == CHOOSE k \in 1..Len(entries) :
                        /\ ToLowerCase(entries[k].label) = key
                        /\ \A m \in (k + 1)..Len(entries) :
                              ToLowerCase(entries[m].label) # key
    IN  [key \in keys |-> entries[last(key)]]

\* the pairs of a record before its first pair with an unknown tag
RECURSIVE GoodPairPrefix(_)
GoodPairPrefix(pairs) ==
    IF pairs = <<>> \/ Head(pairs).tag \notin {"RTS", "WRTS"} THEN <<>>
    ELSE <<Head(pairs)>> \o GoodPairPrefix(Tail(pairs))

\* the entries of the pairs that precede the first unexpected tag of an archive
RECURSIVE EntriesBeforeBadTag(_)
EntriesBeforeBadTag(a) ==
    IF a = <<>> \/ Head(a).tag # "LBL" THEN <<>>
    ELSE LET good == GoodPairPrefix(Head(a).pairs)
             here == [j \in 1..Len(good) |-> EntryOf(Head(a).name, good[j])]
         IN  IF Len(good) < Len(Head(a).pairs) THEN here
             ELSE here \o EntriesBeforeBadTag(Tail(a))

\* the bytes of the archive of section 8: one label FOO with the value "A"
ScenarioBuffer ==
    <<32, 70, 83, 67,  1, 0, 0, 0,  1, 0, 0, 0,  1, 0, 0, 0,  0, 0, 0, 0,  0, 0, 0, 0,
      32, 76, 66, 76,  1, 0, 0, 0,  3, 0, 0, 0,  70, 79, 79,
      32, 82, 84, 83,  1, 0, 0, 0,  190, 255>>

\* C7: parseCsf never throws, whatever the buffer, and the entries it decoded
\* before the malformation are kept in the file's index.
C7_DecodeNeverThrows ==
    csfPhase = "parsed"
        => /\ csfOutcome # "threw"
           /\ csfWrites # <<>> =>
                 /\ FilePath \in DOMAIN fileLabels
                 /\ \A k \in 1..Len(csfWrites) :
                       ToLowerCase(csfWrites[k].label) \in DOMAIN fileLabels[FilePath]

\* C8: once a tag other than " LBL" is read where a label is expected, or a tag
\* other than " RTS"/"WRTS" where a pair is expected, no further entry is
\* produced: the entries decoded from an archive that is not cut short are
\* among those of the pairs before that tag.
C8_StopsAtFirstBadTag ==
    (csfPhase = "parsed" /\ buffer = EncodeArchive(archive))
        => /\ Len(csfWrites) <= Len(EntriesBeforeBadTag(archive))
           /\ csfWrites = SubSeq(EntriesBeforeBadTag(archive), 1, Len(csfWrites))

\* C9: decoding a well-formed archive completes and yields, in file order, one
\* entry per pair with the record's name and the XOR-decoded value of the
\* pair; in the file's index the last pair of a lower-cased label wins; the
\* archive of the scenario decodes to {label: "FOO", value: "A"}.
C9_WellFormedDecodes ==
    csfPhase = "parsed"
        => /\ csfOutcome = "completed"
           /\ csfWrites = ExpectedEntries(archive)
           /\ DOMAIN fileLabels = {FilePath}
           /\ fileLabels[FilePath] = LastWins(ExpectedEntries(archive))
           /\ buffer = ScenarioBuffer
                 => csfWrites = <<[label |-> NameFOO, value |-> <<65>>, extraValue |-> <<>>]>>

\* the archive of the scenario, decoded
C9_Witness ==
    /\ csfPhase = "parsed"
    /\ buffer = ScenarioBuffer
    /\ DOMAIN fileLabels[FilePath] = {<<102, 111, 111>>}
    /\ fileLabels[FilePath][<<102, 111, 111>>].label = NameFOO
    /\ fileLabels[FilePath][<<102, 111, 111>>].value = <<65>>

\* C10: the XOR step is an involution on 16-bit code units: the decoded unit is
\* again in 0..0xFFFF and the same step applied to it gives the original.
C10_XorInvolution ==
    decodedUnit # -1
        => /\ decodedUnit \in 0..XorMask
           /\ DecodeChar(decodedUnit) = codeUnit

\* the stored unit 0xFFBE decoded to "A"
C10_Witness == codeUnit = 65470 /\ decodedUnit = 65

(***************************************************************************)
(* Claims about the manager                                                *)
(***************************************************************************)
\* the upper-case form of an ASCII letter
FoldCase(c) == IF c >= 97 /\ c <= 122 THEN c - 32 ELSE c

\* x and y differ at most in the case of their letters
DiffersOnlyInCase(x, y) ==
    Len(x) = Len(y) /\ \A k \in 1..Len(x) : FoldCase(x[k]) = FoldCase(y[k])

\* the names looked up: "FOO", "Foo", "foo", "fOo", "B", "b"
QueryNames == {NameFOO, NameFoo, <<102, 111, 111>>, <<102, 79, 111>>, NameB, <<98>>}

\* C11: getLabel returns the same result for names that differ only in letter
\* case, and after a load every entry the load wrote last for its label is
\* returned, label field as decoded, for every casing of that label
C11_LookupIgnoresCase ==
    /\ \A x, y \in QueryNames : DiffersOnlyInCase(x, y) => GetLabel(x) = GetLabel(y)
    /\ \A i \in DOMAIN lastLoad.writes : \A x \in QueryNames :
           DiffersOnlyInCase(x, lastLoad.writes[i].label)
           => GetLabel(x) = <<LastWriteOf(lastLoad.writes, ToLowerCase(lastLoad.writes[i].label))>>

\* an entry loaded as "Foo" is what "FOO", "foo" and "fOo" return, as "Foo"
C11_Witness ==
    /\ lastLoad.writes # <<>>
    /\ lastLoad.writes[1].label = NameFoo
    /\ GetLabel(NameFOO) = <<lastLoad.writes[1]>>
    /\ GetLabel(<<102, 111, 111>>) = <<lastLoad.writes[1]>>
    /\ GetLabel(<<102, 79, 111>>) = <<lastLoad.writes[1]>>
    /\ GetLabel(NameFOO)[1].label = NameFoo

\* C12: while only loads have run (no file was removed), the merged index
\* holds, for every lower-cased label, the entry written by the load that
\* ended last among the loads that had the label
C12_LastLoadedWins == ~removed => mergedLabels = latest

\* "FOO" of a.csf was loaded first, "foo" of b.llf last, and "foo" is served
C12_Witness ==
    /\ ~removed
    /\ FilePath \in DOMAIN fileLabels
    /\ LlfPath \in DOMAIN fileLabels
    /\ <<102, 111, 111>> \in DOMAIN fileLabels[FilePath]
    /\ fileLabels[FilePath][<<102, 111, 111>>].label = NameFOO
    /\ lastLoad.path = LlfPath
    /\ lastLoad.writes # <<>>
    /\ lastLoad.writes[1].label = <<102, 111, 111>>
    /\ mergedLabels[<<102, 111, 111>>].label = <<102, 111, 111>>

\* the indexes of a new manager that has loaded uris in order from the disk
RECURSIVE IndexFrom(_, _, _)
IndexFrom(uris, merged, files) ==
    IF uris = <<>> THEN [merged |-> merged, files |-> files]
    ELSE LET r == ParseFile(Head(uris), disk[Head(uris)].bytes)
         IN  IndexFrom(Tail(uris),
                       SetAll(merged, r.writes),
                       IF r.outcome = "completed"
                       THEN MapSet(files, Head(uris), SetAll(EmptyMap, r.writes))
                       ELSE files)

FromScratch ==
    IndexFrom(FindFiles(CsfPaths, disk) \o FindFiles(LlfPaths, disk), EmptyMap, EmptyMap)

\* C13: when the rebuild started by a delete event ends, with no file event
\* since the delete, the merged index and the per-file indexes are those of
\* indexing the remaining files from scratch in the same order
C13_RebuildEqualsScratch ==
    settled = "rebuilt"
    => /\ mergedLabels = FromScratch.merged
       /\ fileLabels = FromScratch.files

\* C14: while a rebuild started by a delete event is running, every label in
\* the index of a loaded file is found by getLabel
C14_NoHalfMergedIndex ==
    (\E k \in DOMAIN scans : scans[k].origin = "delete")
    => \A p \in DOMAIN fileLabels : \A key \in DOMAIN fileLabels[p] :
           GetLabel(fileLabels[p][key].label) # <<>>

\* a step in which a reloadFile of the watcher writes entries into the merged
\* index while a call of indexWorkspaceFiles is between its start and its end
WatcherWritesDuringScan ==
    /\ scans # <<>>
    /\ \E k \in DOMAIN reloads :
           /\ reloads[k].phase = "parse"
           /\ reloads' = RemoveAt(reloads, k)
           /\ ParseFile(reloads[k].path, reloads[k].data.bytes).writes # <<>>

\* C15: no reloadFile of the watcher writes into the merged index during a
\* scan or rebuild, and at most one scan or rebuild runs at a time
C15_SingleWriter == [][~WatcherWritesDuringScan /\ Len(scans') <= 1]_vars

\* the labels of the index of path, none when the file has no index
KeysOfFile(path) ==
    IF GetLabelsByFile(path) = <<>> THEN {} ELSE DOMAIN GetLabelsByFile(path)[1]

\* C16: when every load and rebuild has ended (and no decode threw), the
\* labels of the merged index are exactly the labels of the loaded files
C16_MergedIsUnionOfFiles ==
    (scans = <<>> /\ reloads = <<>> /\ ~threw)
    => DOMAIN mergedLabels = UNION {KeysOfFile(p) : p \in DOMAIN fileLabels}

\* C17: after a reload of a file that did not throw, the file's index holds
\* exactly the entries decoded from the content read, also when there are none
C17_FileIndexReplaced ==
    lastLoad.outcome \in {"completed", "returned"}
    => /\ KeysOfFile(lastLoad.path) = WrittenKeys(lastLoad.writes)
       /\ \A key \in KeysOfFile(lastLoad.path) :
              fileLabels[lastLoad.path][key] = LastWriteOf(lastLoad.writes, key)


(***************************************************************************)
(* Claims about the text decoder                                           *)
(***************************************************************************)
\* the lines of the input text, without their trailing '\r'
LlfInputLines ==
    [k \in 1..Len(SplitLines(llfContent)) |-> StripCR(SplitLines(llfContent)[k])]

\* a continuation line: a non-blank line with the two-space prefix
IsContinuation(line) == StartsWith(line, StrTwoSpaces) /\ TrimCodes(line) # <<>>

\* a label line: a line `Label: ...` without the two-space prefix
IsLabelLine(line) == ~StartsWith(line, StrTwoSpaces) /\ IndexOf(line, StrSeparator, 0) # -1

\* the label of a label line, and its text after ': ' up to a comment
LabelOf(line) == TrimCodes(Substring(line, 0, IndexOf(line, StrSeparator, 0)))
ValueOf(line) ==
    LET rest == Substring(line, IndexOf(line, StrSeparator, 0) + 2, Len(line))
        hash == IndexOf(rest, StrHash, 0)
    IN  TrimCodes(IF hash = -1 THEN rest ELSE Substring(rest, 0, hash))

\* a label line whose value begins with '>'
OpensBlock(line) == IsLabelLine(line) /\ StartsWith(ValueOf(line), StrGreater)

\* the number of continuation lines at the front of lines
RECURSIVE ContinuationCount(_)
ContinuationCount(lines) ==
    IF lines = <<>> \/ ~IsContinuation(Head(lines)) THEN 0
    ELSE 1 + ContinuationCount(Tail(lines))

\* the continuation lines that follow the first line, prefix removed
BlockBody ==
    [k \in 1..ContinuationCount(Tail(LlfInputLines)) |->
        Substring(LlfInputLines[k + 1], 2, Len(LlfInputLines[k + 1]))]

\* the label lines of the input, in order
LabelLines == SelectSeq(LlfInputLines, IsLabelLine)

\* C18: when the first line is `Label: >` and continuation lines follow, the
\* decoded value of Label is those lines without their two-space prefix,
\* joined by single newlines, with no leading or trailing newline
C18_BlockValueJoined ==
    (/\ llfPhase = "parsed"
     /\ OpensBlock(LlfInputLines[1])
     /\ ValueOf(LlfInputLines[1]) = StrGreater
     /\ BlockBody # <<>>)
    => \E i \in DOMAIN llfWrites :
           /\ llfWrites[i].label = LabelOf(LlfInputLines[1])
           /\ llfWrites[i].value = JoinLines(BlockBody)

\* C19: the line that ends a block is decoded as an ordinary line, so the
\* decoder writes one entry per label line (inputs whose last label line is
\* an ordinary `Label: value` line)
C19_EntryPerLabelLine ==
    (/\ llfPhase = "parsed"
     /\ LabelLines # <<>>
     /\ ~OpensBlock(LabelLines[Len(LabelLines)]))
    => Len(llfWrites) = Len(LabelLines)

\* C20: a block still open at the end of the input is flushed: when the only
\* label line is the first line, it opens a block and every other line is a
\* continuation line, the label is among the decoded entries
C20_OpenBlockFlushed ==
    (/\ llfPhase = "parsed"
     /\ OpensBlock(LlfInputLines[1])
     /\ ContinuationCount(Tail(LlfInputLines)) = Len(LlfInputLines) - 1)
    => \E i \in DOMAIN llfWrites : llfWrites[i].label = LabelOf(LlfInputLines[1])

(***************************************************************************)
(* Claims about the description parser                                     *)
(***************************************************************************)
\* the lines of the text given to parse, without their line ends
IniInputLines == [k \in DOMAIN SplitContent(iniContent, <<>>) |->
                     TrimJs(SplitContent(iniContent, <<>>)[k])]

\* a name of the dialect: not empty, without brackets or colons
IsName(s) == s # <<>> /\ \A k \in 1..Len(s) : s[k] \notin {"[", "]", ":"}

\* the header [Name] of the dialect
IsPlainHeader(t) ==
    Len(t) >= 3 /\ t[1] = "[" /\ t[Len(t)] = "]" /\ IsName(SubSeq(t, 2, Len(t) - 1))

\* the header [Name]:[Base] of the dialect
IsInheritHeader(t) ==
    \E p \in 3..(Len(t) - 4) :
        /\ t[1] = "["
        /\ IsName(SubSeq(t, 2, p - 1))
        /\ SubSeq(t, p, p + 2) = <<"]", ":", "[">>
        /\ IsName(SubSeq(t, p + 3, Len(t) - 1))
        /\ t[Len(t)] = "]"

IsDialectHeader(t) == IsPlainHeader(t) \/ IsInheritHeader(t)

\* the Name of a dialect header
HeaderName(t) == SubSeq(t, 2, 1 + RunFrom(t, 1, {"]"}))

\* the Base of a [Name]:[Base] header
HeaderBase(t) == SubSeq(t, RunFrom(t, 1, {"]"}) + 5, Len(t) - 1)

IsIniComment(t) == t # <<>> /\ t[1] = ";"

\* a single-line key=value line of the dialect
IsKeyValueLine(t) ==
    /\ t # <<>>
    /\ ~IsIniComment(t)
    /\ ~IsDialectHeader(t)
    /\ Includes(t, <<"=">>)
    /\ ~Includes(t, Q3)
    /\ TrimJs(Substring(t, 0, IndexOf(t, <<"=">>, 0))) # <<>>

IniKeyOf(t) == TrimJs(Substring(t, 0, IndexOf(t, <<"=">>, 0)))
IniValueOf(t) == TrimJs(Substring(t, IndexOf(t, <<"=">>, 0) + 1, Len(t)))

\* a text made only of blank lines, comments, dialect headers and single-line
\* key=value lines
InDialect(lines) ==
    \A k \in 1..Len(lines) :
        \/ lines[k] = <<>>
        \/ IsIniComment(lines[k])
        \/ IsDialectHeader(lines[k])
        \/ IsKeyValueLine(lines[k])

\* the positions of the headers of the text
HeaderLines(lines) == {i \in 1..Len(lines) : IsDialectHeader(lines[i])}

\* the header under which line j stands: the last header before it, 0 if none
HeaderOf(lines, j) ==
    LET hs == {i \in HeaderLines(lines) : i < j}
    IN  IF hs = {} THEN 0 ELSE SetMax(hs)

\* the key=value lines that stand under a header of section name
LinesOf(lines, name) ==
    {j \in 1..Len(lines) :
        /\ IsKeyValueLine(lines[j])
        /\ HeaderOf(lines, j) # 0
        /\ HeaderName(lines[HeaderOf(lines, j)]) = name}

\* C21: a header [Name]:[Base] creates or selects section Name with base Base
\* (the base its last such header declares), and every key=value line that
\* follows it up to the next header is stored under Name, while the section
\* that was open before it receives none of these keys from those lines.
C21_InheritHeaderOpensSection ==
    (iniPhase = "done" /\ InDialect(IniInputLines))
        => LET lines == IniInputLines
           IN  \A i \in HeaderLines(lines) :
                   IsInheritHeader(lines[i])
                       => LET name == HeaderName(lines[i])
                              before == HeaderOf(lines, i)
                          IN  /\ name \in DOMAIN parsed
                              /\ (\A h \in HeaderLines(lines) :
                                     (h > i /\ IsInheritHeader(lines[h]))
                                         => HeaderName(lines[h]) # name)
                                   => parsed[name].base = Str(HeaderBase(lines[i]))
                              /\ \A j \in LinesOf(lines, name) :
                                     HeaderOf(lines, j) = i
                                         => /\ IniKeyOf(lines[j]) \in DOMAIN parsed[name].properties
                                            /\ (/\ before # 0
                                                /\ HeaderName(lines[before]) # name)
                                                 => \/ IniKeyOf(lines[j]) \notin
                                                         DOMAIN parsed[HeaderName(lines[before])].properties
                                                    \/ \E q \in LinesOf(lines, HeaderName(lines[before])) :
                                                           IniKeyOf(lines[q]) = IniKeyOf(lines[j])

\* the value the last line of section name that sets key gives it
LastValue(lines, name, key) ==
    IniValueOf(lines[SetMax({j \in LinesOf(lines, name) : IniKeyOf(lines[j]) = key})])

\* C22: every section named by a header holds the keys of the lines under all
\* its headers, each with the value of its last line, and the base of its
\* last header that declares one.
C22_OccurrencesAccumulate ==
    (iniPhase = "done" /\ InDialect(IniInputLines))
        => LET lines == IniInputLines
           IN  \A i \in HeaderLines(lines) :
                   LET name == HeaderName(lines[i])
                       declaring == {h \in HeaderLines(lines) :
                                        /\ IsInheritHeader(lines[h])
                                        /\ HeaderName(lines[h]) = name}
                   IN  /\ name \in DOMAIN parsed
                       /\ DOMAIN parsed[name].properties
                              = {IniKeyOf(lines[j]) : j \in LinesOf(lines, name)}
                       /\ \A key \in DOMAIN parsed[name].properties :
                              parsed[name].properties[key] = LastValue(lines, name, key)
                       /\ declaring # {}
                              => parsed[name].base
                                     = Str(HeaderBase(lines[SetMax(declaring)]))

(***************************************************************************)
(* Claims about the description resolver                                   *)
(***************************************************************************)
\* the chain of section names from cur on, each followed by its base in
\* store, cut after n names; it ends after a name that store lacks or whose
\* section has no base
RECURSIVE ChainFrom(_, _, _)
ChainFrom(store, cur, n) ==
    IF n = 0 \/ cur = Null \/ cur = Str(<<>>) THEN <<>>
    ELSE <<cur[1]>> \o (IF cur[1] \in DOMAIN store
                        THEN ChainFrom(store, store[cur[1]].base, n - 1)
                        ELSE <<>>)

\* the chain from section s, long enough to show every section once and a
\* repetition if there is one
Chain(store, s) == ChainFrom(store, Str(s), Cardinality(DOMAIN store) + 1)

\* the positions of the chain at which a section holds a non-empty value
ValueHops(store, s, key) ==
    LET chain == Chain(store, s)
    IN  {i \in 1..Len(chain) :
            /\ chain[i] \in DOMAIN store
            /\ key \in DOMAIN store[chain[i]].properties
            /\ store[chain[i]].properties[key] # <<>>}

\* the first non-empty value on the chain from s, <<>> when there is none
ChainValue(store, s, key) ==
    LET hops == ValueHops(store, s, key)
    IN  IF hops = {} THEN Null
        ELSE Str(store[Chain(store, s)[SetMin(hops)]].properties[key])

\* the walk that has just ended ran in a loaded language
WalkEnded ==
    /\ descPhase \in {"miss", "done"}
    /\ NormalizeLanguageCode(walkLanguage) \in DOMAIN descriptions

\* C23: a walk within one language returns the first non-empty value for the
\* key on the chain section, base, base of the base, ..., and reports
\* not-found when the chain ends at a missing section or at a section without
\* base before such a value is met; an empty value does not end the chain.
C23_WalkReturnsFirstValue ==
    WalkEnded
        => LET first == ChainValue(LangDescriptions, query.section, query.key)
           IN  IF descPhase = "miss" THEN first = Null ELSE descResult = first

\* C lies two steps below A, only A holds a value for k (B holds an empty one),
\* and the lookup at C returned A's value
C23_Witness ==
    /\ descPhase = "done"
    /\ query.section = SectionC
    /\ visited = <<SectionC, SectionB, SectionA>>
    /\ KeyK \in DOMAIN LangDescriptions[SectionB].properties
    /\ LangDescriptions[SectionB].properties[KeyK] = <<>>
    /\ KeyK \notin DOMAIN LangDescriptions[SectionC].properties
    /\ descResult = Str(ValueIn(SectionA, <<>>))

\* the chain from s returns to a section it has left
Cyclic(store, s) ==
    LET chain == Chain(store, s)
    IN  \E i, j \in 1..Len(chain) : i < j /\ chain[i] = chain[j]

\* no section name twice in a walk, at most one iteration per section of the
\* language plus one, at most two walks in a lookup, and not-found for a walk
\* on a cycle whose sections hold no non-empty value for the key
WalkBounded ==
    /\ \A i, j \in 1..Len(visited) : i # j => visited[i] # visited[j]
    /\ NormalizeLanguageCode(walkLanguage) \in DOMAIN descriptions
           => Len(visited) <= Cardinality(DOMAIN LangDescriptions) + 1
    /\ attempt <= 2
    /\ (/\ WalkEnded
        /\ Cyclic(LangDescriptions, query.section)
        /\ ValueHops(LangDescriptions, query.section, query.key) = {})
           => (descPhase = "miss" \/ descResult = Null)

\* C25: a walk visits no section name twice, every iteration that stays in
\* the loop adds one name to the visited ones, whose number never exceeds
\* the number of sections of the language plus one, so every walk ends; a
\* walk on a cycle without a non-empty value for the key ends not-found.
C25_WalkTerminates ==
    /\ []WalkBounded
    /\ [][(descPhase = "walk" /\ descPhase' = "walk" /\ attempt' = attempt)
             => Len(visited') = Len(visited) + 1]_vars

\* A and B are each other's base, neither holds a value for k, and the lookup
\* at A returned not-found after visiting both once
C25_Witness ==
    /\ descPhase = "done"
    /\ descResult = Null
    /\ currentLanguage = EnUS
    /\ query.section = SectionA
    /\ visited = <<SectionA, SectionB>>
    /\ EnUS \in DOMAIN descriptions
    /\ {SectionA, SectionB} \subseteq DOMAIN LangDescriptions
    /\ LangDescriptions[SectionA].base = Str(SectionB)
    /\ LangDescriptions[SectionB].base = Str(SectionA)

\* the result of the walk in a language, <<>> when the language is not loaded
WalkIn(language) ==
    IF NormalizeLanguageCode(language) \in DOMAIN descriptions
    THEN ChainValue(descriptions[NormalizeLanguageCode(language)], query.section, query.key)
    ELSE Null

\* the values some section of a language holds for the key
ValuesIn(language) ==
    IF language \notin DOMAIN descriptions THEN {}
    ELSE {descriptions[language][n].properties[query.key] :
             n \in {m \in DOMAIN descriptions[language] :
                       query.key \in DOMAIN descriptions[language][m].properties}}

\* C26: getDescription returns the result of the walk in the current language
\* when that walk finds a value, otherwise the result of the same walk in
\* 'en-US', otherwise not-found; what it returns is a value of the current
\* language or of 'en-US', never one of another loaded language only.
C26_LanguageFallback ==
    descPhase = "done"
        => /\ descResult = IF WalkIn(currentLanguage) # Null THEN WalkIn(currentLanguage)
                           ELSE WalkIn(EnUS)
           /\ descResult # Null
                  => descResult[1] \in ValuesIn(currentLanguage) \cup ValuesIn(EnUS)

\* the current language is 'zh-CN', neither it nor 'en-US' has a value for
\* (A, k), 'fr' has one, and the lookup returned not-found after the fallback
C26_Witness ==
    /\ descPhase = "done"
    /\ descResult = Null
    /\ attempt = 2
    /\ currentLanguage = ZhCN
    /\ query.section = SectionA
    /\ {ZhCN, EnUS, Fr} \subseteq DOMAIN descriptions
    /\ SectionA \in DOMAIN descriptions[Fr]
    /\ KeyK \in DOMAIN descriptions[Fr][SectionA].properties
    /\ descriptions[Fr][SectionA].properties[KeyK] = ValueIn(SectionA, TagOf(Fr))

\* the sections the scenario is given: A without the key, B based on A with k=v
ValueV == <<"v">>
GivenSections(store) ==
    /\ {SectionA, SectionB} \subseteq DOMAIN store
    /\ KeyK \notin DOMAIN store[SectionA].properties
    /\ store[SectionB].base = Str(SectionA)
    /\ KeyK \in DOMAIN store[SectionB].properties
    /\ store[SectionB].properties[KeyK] = ValueV

\* the walk that has ended was a lookup of (section, k) in the given sections
ScenarioWalk(section) ==
    /\ WalkEnded
    /\ GivenSections(LangDescriptions)
    /\ query = [section |-> section, key |-> KeyK]

\* the walk that has ended found v
FoundV == descPhase = "done" /\ descResult = Str(ValueV)

\* C24 as stated: once A's base is B, a lookup of (A, k) does not find v, and
\* with C based on B a lookup of (C, k) finds v.
C24_BaseDoesNotSeeChild ==
    /\ (ScenarioWalk(SectionA) /\ LangDescriptions[SectionA].base = Str(SectionB))
           => ~FoundV
    /\ (/\ ScenarioWalk(SectionC)
        /\ SectionC \in DOMAIN LangDescriptions
        /\ LangDescriptions[SectionC].base = Str(SectionB))
           => FoundV

\* C24 amended: while A has no base, a lookup of (A, k) does not find v; once
\* A's base is B, a lookup of (A, k) finds v through B; and with C based on B
\* a lookup of (C, k) finds v.
C24_ChildSeesBase ==
    /\ (ScenarioWalk(SectionA) /\ LangDescriptions[SectionA].base = Null)
           => ~FoundV
    /\ (ScenarioWalk(SectionA) /\ LangDescriptions[SectionA].base = Str(SectionB))
           => FoundV
    /\ (/\ ScenarioWalk(SectionC)
        /\ SectionC \in DOMAIN LangDescriptions
        /\ LangDescriptions[SectionC].base = Str(SectionB))
           => FoundV

\* 'en-US' was loaded from the file where A has no base, then from the file
\* where a later header sets A's base to B, and the lookup of (A, k) found v
C24_Witness ==
    /\ loadLog = <<[path |-> PathZ, language |-> EnUS], [path |-> PathE, language |-> EnUS]>>
    /\ Readable(PathZ)
    /\ Readable(PathE)
    /\ currentLanguage = EnUS
    /\ ScenarioWalk(SectionA)
    /\ LangDescriptions[SectionA].base = Str(SectionB)
    /\ visited = <<SectionA, SectionB>>
    /\ FoundV

(***************************************************************************)
(* Claims about loading descriptions                                       *)
(***************************************************************************)
\* the lines of the main dictionary, trimmed
MainLines ==
    IF Readable(MainDictPath)
    THEN LET lines == SplitContent(descFiles[MainDictPath].text, <<>>)
         IN  [k \in DOMAIN lines |-> TrimJs(lines[k])]
    ELSE <<>>

\* line j stands in the section [Description]
InDescription(lines, j) ==
    LET hs == {i \in 1..(j - 1) : lines[i] # <<>> /\ lines[i][1] = "["}
    IN  hs # {} /\ lines[SetMax(hs)] = DescriptionHeader

\* the lines of [Description] that list a language file
ListedLines(lines) ==
    {j \in 1..Len(lines) :
        /\ InDescription(lines, j)
        /\ lines[j] # <<>>
        /\ lines[j][1] \notin {";", "["}
        /\ Includes(lines[j], <<"=">>)}

\* the file a listed line names, relative to the directory of the dictionary
ListedFile(t) ==
    IF IsAbsolute(IniValueOf(t)) THEN IniValueOf(t) ELSE PathJoin(DescDir, IniValueOf(t))

\* the language a listed line names
ListedLanguage(t) == NormalizeLanguageCode(IniKeyOf(t))

\* the listed lines whose file can be read, when the call gets to them: the
\* description directory is set and the main dictionary can be read
LoadableLines ==
    IF BaseTruthy(descriptionDir)
    THEN {j \in ListedLines(MainLines) : Readable(ListedFile(MainLines[j]))}
    ELSE {}

\* C27: in a call of loadFromDictionary every listed language file that can be
\* read is loaded, whatever happens with the other listed files, the languages
\* not loaded by the call keep what they had, and the call returns true
\* exactly when it loaded at least one language file.
C27_FailedFileNotFatal ==
    [][(loadResult = "none" /\ loadResult' # "none")
          => /\ (loadResult' = "true") <=> (LoadableLines # {})
             /\ \A j \in LoadableLines :
                    /\ ListedLanguage(MainLines[j]) \in DOMAIN descriptions'
                    /\ \E i \in LoadableLines :
                           /\ ListedLanguage(MainLines[i]) = ListedLanguage(MainLines[j])
                           /\ descriptions'[ListedLanguage(MainLines[j])]
                                  = ParseIni(descFiles[ListedFile(MainLines[i])].text)
             /\ \A l \in DOMAIN descriptions' \ {ListedLanguage(MainLines[j]) : j \in LoadableLines} :
                    l \in DOMAIN descriptions /\ descriptions'[l] = descriptions[l]]_vars

\* the dictionary lists 'zh-cn' first and 'en-US' second, the file of 'zh-cn'
\* exists but cannot be read, and the call loaded 'en-US' and returned true
C27_Witness ==
    /\ loadResult = "true"
    /\ Readable(MainDictPath)
    /\ descFiles[MainDictPath].text = JoinIni(<<DictHeader, DictZh, DictEn>>)
    /\ ExistsSync(PathZ)
    /\ ~Readable(PathZ)
    /\ Readable(PathE)
    /\ DOMAIN descriptions = {EnUS}
    /\ descriptions[EnUS] = ParseIni(TextRebased)

(***************************************************************************)
(* Claims about the tokens of one line                                     *)
(***************************************************************************)
\* parseLine has run on line 0 with inMultilineString false, and on no other line
FirstLineParsed ==
    /\ call \in {"full", "range"}
    /\ lineIdx = 1
    /\ kind = "range" => rangeStart = 0

\* the pushes that are not comment tokens
NonComment(seq) == SelectSeq(seq, LAMBDA k : k.type # "comment")

\* the text of a line before its comment
BeforeComment(t) ==
    IF IndexOf(t, <<";">>, 0) = -1 THEN t ELSE Substring(t, 0, IndexOf(t, <<";">>, 0))

\* the characters of t at the 0-based columns from..(to - 1) all lie outside stop
Avoids(t, from, to, stop) == \A c \in (from + 1)..to : t[c] \notin stop

\* all characters of t from the 0-based column from on are whitespace
BlankFrom(t, from) == \A c \in (from + 1)..Len(t) : IsSpace(t[c])

\* t is ws [Name]:[Base] ws, with Name of n and Base of b characters after w
\* characters of whitespace
IsInheritLine(t, w, n, b) ==
    /\ n >= 1 /\ b >= 1
    /\ Len(t) >= w + n + b + 5
    /\ BlankFrom(SubSeq(t, 1, w), 0)
    /\ t[w + 1] = "["
    /\ Avoids(t, w + 1, w + 1 + n, {"]", ":"})
    /\ SubSeq(t, w + n + 2, w + n + 4) = <<"]", ":", "[">>
    /\ Avoids(t, w + n + 4, w + n + 4 + b, {"]"})
    /\ t[w + n + b + 5] = "]"
    /\ BlankFrom(t, w + n + b + 5)

\* t is ws [Name] ws, with Name of n characters after w characters of whitespace
IsSimpleLine(t, w, n) ==
    /\ n >= 1
    /\ Len(t) >= w + n + 2
    /\ BlankFrom(SubSeq(t, 1, w), 0)
    /\ t[w + 1] = "["
    /\ Avoids(t, w + 1, w + 1 + n, {"]", ":"})
    /\ t[w + n + 2] = "]"
    /\ BlankFrom(t, w + n + 2)

\* C31: outside a multi-line string a line [Name]:[Base], indented or not, gets
\* exactly five non-comment tokens, contiguous from the opening bracket:
\* sectionBracket, sectionContent on Name, sectionInherit on the three
\* characters ]:[, sectionInherit on Base, sectionBracket; a line [Name] gets
\* exactly sectionBracket, sectionContent, sectionBracket; neither line changes
\* inMultilineString.
C31_SectionHeaderTokens ==
    FirstLineParsed =>
        LET t == BeforeComment(document[1])
            pushed == NonComment(builder)
        IN  /\ \A w \in 0..Len(t) : \A n \in 1..Len(t) : \A b \in 1..Len(t) :
                  IsInheritLine(t, w, n, b) =>
                      /\ pushed = <<Token(0, w, 1, "sectionBracket"),
                                    Token(0, w + 1, n, "sectionContent"),
                                    Token(0, w + 1 + n, 3, "sectionInherit"),
                                    Token(0, w + 4 + n, b, "sectionInherit"),
                                    Token(0, w + 4 + n + b, 1, "sectionBracket")>>
                      /\ state = FALSE
            /\ \A w \in 0..Len(t) : \A n \in 1..Len(t) :
                  IsSimpleLine(t, w, n) =>
                      /\ pushed = <<Token(0, w, 1, "sectionBracket"),
                                    Token(0, w + 1, n, "sectionContent"),
                                    Token(0, w + 1 + n, 1, "sectionBracket")>>
                      /\ state = FALSE

\* an indented header with a base and a comment has been tokenized
C31_Witness ==
    /\ FirstLineParsed
    /\ document[1] = <<" ", "[", "A", " ", "b", "]", ":", "[", "b", ":", "c", "]", ";", "c">>
    /\ Len(builder) = 6

\* t is a key/value line: w characters of whitespace, a key of n characters
\* that are neither whitespace nor =, optional whitespace, then =
IsKeyValueText(t, w, n) ==
    /\ n >= 1
    /\ Len(t) > w + n
    /\ BlankFrom(SubSeq(t, 1, w), 0)
    /\ t[w + 1] # "["
    /\ Avoids(t, w, w + n, {" ", "\t", "="})
    /\ \E e \in (w + n + 1)..Len(t) :
          /\ t[e] = "="
          /\ BlankFrom(SubSeq(t, 1, e - 1), w + n)

\* the 0-based column at which the i-th dot-separated part of a key starts
\* when the key starts at column w
RECURSIVE PartColumn(_, _, _)
PartColumn(parts, i, w) ==
    IF i = 1 THEN w ELSE PartColumn(parts, i - 1, w) + Len(parts[i - 1]) + 1

\* the pushes that are key tokens
KeyPartTokens(seq) ==
    SelectSeq(seq, LAMBDA k : k.type \in {"keyPart1", "keyPart2", "keyPart3"})

\* C32: in a key/value line the key is split at dots; part 1 is keyPart1, part
\* 2 is keyPart2, every later part is keyPart3; each token starts at the
\* column where its part occurs in the line and has the part's length.
C32_KeyPartTokens ==
    FirstLineParsed =>
        LET t == BeforeComment(document[1])
        IN  \A w \in 0..Len(t) : \A n \in 1..Len(t) :
                IsKeyValueText(t, w, n) =>
                    LET parts == SplitDot(SubSeq(t, w + 1, w + n))
                    IN  KeyPartTokens(builder) =
                            [i \in 1..Len(parts) |->
                                Token(0, PartColumn(parts, i, w), Len(parts[i]),
                                      IF i = 1 THEN "keyPart1"
                                      ELSE IF i = 2 THEN "keyPart2" ELSE "keyPart3")]

\* the 0-based column of the first = after a key that ends before column from
OperatorColumn(t, from) == IndexOf(t, <<"=">>, from)

\* the 0-based column of the first character after column op that is not
\* whitespace, Len(t) when there is none
ValueColumn(t, op) == op + 1 + LeadingSpaces(Substring(t, op + 1, Len(t)))

\* C33: in a key/value line whose value is not blank there is one value token;
\* it starts at the first character after the operator that is not whitespace,
\* hence after the operator token, and ends with the text before the comment,
\* also when the value starts with =.
C33_ValueTokenColumn ==
    FirstLineParsed =>
        LET t == BeforeComment(document[1])
        IN  \A w \in 0..Len(t) : \A n \in 1..Len(t) :
                (/\ IsKeyValueText(t, w, n)
                 /\ ValueColumn(t, OperatorColumn(t, w + n)) < Len(t)) =>
                    LET op == OperatorColumn(t, w + n)
                        v == ValueColumn(t, op)
                    IN  /\ SelectSeq(builder, LAMBDA k : k.type = "operator")
                              = <<Token(0, op, 1, "operator")>>
                        /\ SelectSeq(builder, LAMBDA k : k.type = "value")
                              = <<Token(0, v, Len(t) - v, "value")>>

(***************************************************************************)
(* Claims about repeated requests                                          *)
(***************************************************************************)
\* C34: parseLine leaves the ParseState object it is given as it was (the
\* caller's object has the same inMultilineString after the call as before);
\* every full tokenization starts from inMultilineString false, whatever call
\* came before; and all the full tokenizations of a document that run to its
\* end return the same token list.
C34_StateNotShared ==
    /\ \A i \in 1..Len(fullResults) : fullResults[i] = fullResults[1]
    /\ (call = "full" /\ lineIdx = 0) => state = FALSE
    /\ (call \in {"full", "range"} /\ lineIdx > (IF kind = "full" THEN 0 ELSE rangeStart))
          => passed = <<IF kind = "full"
                        THEN TokenizeFull(document, lineIdx - 1).inMultilineString
                        ELSE TokenizeRange(document, rangeStart, lineIdx - 1).inMultilineString>>

\* a second full tokenization has run to the end after a call that
\* ended inside a multi-line string
C34_Witness ==
    /\ Len(fullResults) = 2
    /\ call = "done"
    /\ kind = "full"
    /\ document = << <<"b", ";", Q, Q, Q>>, <<"a", "=", Q, Q, Q>> >>
    /\ passed = <<FALSE>>
    /\ state = TRUE

(***************************************************************************)
(* Claims about failed reloads and initialization                          *)
(***************************************************************************)
\* a step in which a call of reloadFile ends in its catch block: fs.readFile
\* rejected, or the decoder threw
ReloadFails ==
    \/ /\ ReloadParse \/ ScanParse
       /\ lastLoad'.outcome = "threw"
    \/ /\ ReloadRead
       /\ Len(reloads') < Len(reloads)
    \/ /\ ScanRead
       /\ \E k \in DOMAIN scans :
             scans[k].phase = "read" /\ ~disk[scans[k].uris[scans[k].i]].exists

\* C35: a call of reloadFile that fails (the file cannot be read, or decoding
\* throws part-way through the buffer) leaves the merged index and every
\* per-file index as they were before the call.
C35_FailedReloadChangesNothing ==
    [][ReloadFails => (mergedLabels' = mergedLabels /\ fileLabels' = fileLabels)]_vars

\* the call of indexWorkspaceFiles made by the constructor has not ended
InitialScanRuns == \E k \in DOMAIN scans : scans[k].origin = "init"

\* what isInitialized() and waitForInitialization() show in one state
InitializedWhenScanned ==
    /\ InitialScanRuns => ~initialized
    /\ ~InitialScanRuns => initialized
    /\ waiter = "resolved" => initialized

\* C36: isInitialized() is false from construction until the initial scan has
\* gone through every file it found, true from the moment that scan ends, and
\* never false again, also while a rebuild after a file deletion has emptied
\* the merged index; waitForInitialization() resolves only when
\* isInitialized() is true.
C36_InitializedOnce ==
    /\ []InitializedWhenScanned
    /\ [][initialized => initialized']_vars

\* a caller of waitForInitialization has resumed and isInitialized() is true
\* while a rebuild after a deletion runs on an emptied merged index
C36_Witness ==
    /\ initialized
    /\ waiter = "resolved"
    /\ \E k \in DOMAIN scans : scans[k].origin = "delete"
    /\ removed
    /\ mergedLabels = EmptyMap
    /\ fileLabels # EmptyMap

(***************************************************************************)
(* Claims about multi-line values of description files                     *)
(***************************************************************************)
\* the lines of the text given to parse, as content.split(/\r?\n/) cuts them
RawLines == SplitContent(iniContent, <<>>)

\* the text of a key line after its = and the whitespace that follows
AfterEquals(t) ==
    LET rest == Substring(t, IndexOf(t, <<"=">>, 0) + 1, Len(t))
    IN  Substring(rest, LeadingTrimSpaces(rest), Len(rest))

\* t opens a multi-line value: key = """..., without a second marker
OpensValue(t) ==
    /\ Includes(t, <<"=">>)
    /\ IniKeyOf(t) # <<>>
    /\ Substring(AfterEquals(t), 0, 3) = Q3
    /\ IndexOf(AfterEquals(t), Q3, 3) = -1

\* the text of the opening line after the marker
BlockRemainder(t) == Substring(AfterEquals(t), 3, Len(AfterEquals(t)))

\* the line that closes the value opened at line o: the first later line with
\* a marker, 0 if none
ClosingLine(lines, o) ==
    LET cs == {i \in (o + 1)..Len(lines) : Includes(lines[i], Q3)}
    IN  IF cs = {} THEN 0 ELSE SetMin(cs)

\* the text from line i to the marker of line c: the lines before c, each
\* followed by '\n', then the text before the marker
RECURSIVE BlockText(_, _, _)
BlockText(lines, i, c) ==
    IF i >= c THEN Substring(lines[c], 0, IndexOf(lines[c], Q3, 0))
    ELSE lines[i] \o <<LF>> \o BlockText(lines, i + 1, c)

\* the section names and the keys that the lines after line c declare
NamesAfter(lines, c) ==
    {HeaderName(TrimJs(lines[i])) : i \in {j \in (c + 1)..Len(lines) :
                                              IsDialectHeader(TrimJs(lines[j]))}}
KeysAfter(lines, c) ==
    {IniKeyOf(lines[i]) : i \in {j \in (c + 1)..Len(lines) : Includes(lines[j], <<"=">>)}}

\* C37: a multi-line value is stored as the text between the opening and the
\* closing marker with its line breaks: the remainder of the opening line,
\* each following line, the text before the closing marker.  What follows the
\* closing marker on its line is dropped, and headers, comments and key=value
\* lines between the markers create no section and no key.
C37_BlockValueStored ==
    (/\ iniPhase = "done"
     /\ Len(RawLines) >= 3
     /\ IsPlainHeader(RawLines[1])
     /\ OpensValue(RawLines[2])
     /\ ClosingLine(RawLines, 2) # 0)
        => LET lines == RawLines
               c == ClosingLine(lines, 2)
               name == HeaderName(lines[1])
               key == IniKeyOf(lines[2])
           IN  /\ name \in DOMAIN parsed
               /\ key \in DOMAIN parsed[name].properties
               /\ key \notin KeysAfter(lines, c)
                     => parsed[name].properties[key]
                            = BlockRemainder(lines[2]) \o <<LF>> \o BlockText(lines, 3, c)
               /\ DOMAIN parsed \subseteq {name} \cup NamesAfter(lines, c)
               /\ \A n \in DOMAIN parsed :
                      DOMAIN parsed[n].properties \subseteq {key} \cup KeysAfter(lines, c)

(***************************************************************************)
(* Claims about the dictionary download                                    *)
(***************************************************************************)
\* the file names the [#include] sections of a text list: the lines that are
\* not blank, not comments and not headers and stand under a header that
\* reads [#include] in any letter case, each without its number=
IncludedNames(text) ==
    UNION {
        LET IsHeader(k) == lines[k] # <<>> /\ lines[k][1] = "["
            Under(k) == LET hs == {h \in 1..(k - 1) : IsHeader(h)}
                        IN  hs # {} /\ LowerCaseText(lines[SetMax(hs)]) = IncludeHeader
            NameOf(k) == IF Includes(lines[k], <<"=">>)
                         THEN TrimJs(Substring(lines[k], IndexOf(lines[k], <<"=">>, 0) + 1,
                                               Len(lines[k])))
                         ELSE lines[k]
        IN  {NameOf(k) : k \in {j \in 1..Len(lines) :
                                   /\ lines[j] # <<>>
                                   /\ lines[j][1] \notin {"[", ";"}
                                   /\ Under(j)}} \ {<<>>}
        : lines \in {[k \in DOMAIN SplitContent(text, <<>>) |->
                         TrimJs(SplitContent(text, <<>>)[k])]}}

\* the dictionary files: the entry file and every file reached from it
\* through [#include] sections
RECURSIVE IncludeClosure(_)
IncludeClosure(S) ==
    LET more == S \cup UNION {IncludedNames(repository[f]) : f \in S \cap DOMAIN repository}
    IN  IF more = S THEN S ELSE IncludeClosure(more)
DictionaryFiles == IncludeClosure({DictFilename})

\* mirror i serves every dictionary file
Serves(i, files) == \A f \in files : f \in DOMAIN repository /\ f \notin network[i]
GoodMirror(i) == Serves(i, DictionaryFiles)

\* the failed request that ended the attempt on mirror i, as an error
FailureOf(i) ==
    LET k == CHOOSE k \in DOMAIN requests :
                 requests[k].mirror = i /\ requests[k].kind = "dictionary" /\ ~requests[k].ok
    IN  [mirror |-> i, filename |-> requests[k].filename]

NoRepeatedDownload ==
    \A j \in DOMAIN requests : \A k \in DOMAIN requests :
        (/\ j < k
         /\ requests[j].mirror = requests[k].mirror
         /\ requests[j].kind = "dictionary"
         /\ requests[k].kind = "dictionary")
            => requests[j].filename # requests[k].filename

\* one iteration of the queue loop that stays in the loop either drops a
\* queued name that is already downloaded, which shortens the queue, or
\* downloads a file of the repository that was not downloaded, which leaves
\* one file fewer to download
QueueStepProgress ==
    (dlPhase = "queue" /\ dlPhase' = "queue" /\ mirror' = mirror)
        => \/ /\ downloadedFiles' = downloadedFiles
              /\ Len(downloadQueue') = Len(downloadQueue) - 1
              /\ Head(downloadQueue) \in downloadedFiles
           \/ /\ downloadedFiles' = downloadedFiles \cup {Head(downloadQueue)}
              /\ Head(downloadQueue) \in DOMAIN repository \ downloadedFiles

\* C39: within one attempt the queue loop ends for every repository, also
\* when files include each other or themselves: a queued name that is already
\* downloaded is dropped when it is dequeued, so no file is downloaded twice
\* in an attempt, and every iteration lowers the pair (files not yet
\* downloaded, queue length), which cannot go on forever.
C39_QueueTerminates ==
    /\ [](NoRepeatedDownload /\ downloadedFiles \subseteq DOMAIN repository)
    /\ [][QueueStepProgress]_vars

\* the call has returned for a repository in which the entry file includes a
\* (twice) and b, a includes b and the entry file, and b includes a
C39_Witness ==
    /\ dlPhase = "returned"
    /\ downloadedFiles = {DictFilename, FileA, FileB}
    /\ FileA \in IncludedNames(repository[FileB])
    /\ {FileB, DictFilename} \subseteq IncludedNames(repository[FileA])
    /\ Len(requests) = 3

(***************************************************************************)
(* Claims about the two description managers                               *)
(***************************************************************************)
\* the lines of the description file that are section headers
DescriptionHeaders ==
    {l \in Range(SplitContent(descFiles[PathZ].text, <<>>)) : SectionMatch(TrimJs(l)).ok}

\* the description file declares no base
NoBaseDeclaration == \A l \in DescriptionHeaders : SectionMatch(TrimJs(l)).base = Null

\* both managers have been given the same calls and have answered the query
SameCalls ==
    /\ descPhase = "done"
    /\ legacyQuery = Str(query)
    /\ legacyLog = loadLog
    /\ legacyLanguage = currentLanguage

\* C40: on a description file without base declaration, loaded and queried
\* with normalized language codes, getDescription of the earlier manager
\* returns what getDescription of the manager returns, for every section and
\* key; the inheritance branch of the earlier manager never fires, because no
\* section key its parser stores has the form Child:[Parent].
C40_VariantsAgree ==
    /\ (SameCalls /\ NoBaseDeclaration) => legacyResult = descResult
    /\ \A language \in DOMAIN legacyDescriptions :
           \A sectionKey \in DOMAIN legacyDescriptions[language] :
               ~LegacyInheritance(sectionKey).ok

=============================================================================
